---- MODULE Spec2Model ----
(***************************************************************************)
(* Model of the mcp-registry gateway: the mount engine of server.py        *)
(* (registry_add, registry_launch_stdio, registry_remove,                  *)
(* registry_config_set, registry_exec), the mount table of registry.py,    *)
(* the two supervisors (podman_runner.py, stdio_runner.py), the dynamic    *)
(* tool surface (schema_converter.py and FastMCP's add_tool/remove_tool)   *)
(* and the RPC client manager (mcp_client.py, not part of the sources,     *)
(* modelled from the specification).                                       *)
(*                                                                         *)
(* Text is modelled as a sequence of tokens: a token is a run of           *)
(* characters without separator, and the separators "_", "-", "/" are      *)
(* tokens of their own, so that split, replace, startswith and the         *)
(* f-strings of the code are computed, not assumed.                        *)
(***************************************************************************)
EXTENDS Integers, Sequences, FiniteSets, TLC

\* ------------------------------------------------------------------ bounds

\* Children (processes) spawned in one run of the gateway.
MaxSpawn == 2

\* ------------------------------------------------------------------- text

\* The values of a function or sequence.
Range(f) == {f[x] : x \in DOMAIN f}

RECURSIVE Replace(_, _, _)
\* str.replace(a, b) for one-token a and b.
Replace(s, a, b) ==
    IF s = <<>> THEN <<>>
    ELSE <<IF Head(s) = a THEN b ELSE Head(s)>> \o Replace(Tail(s), a, b)

RECURSIVE SplitLast(_, _)
\* s.split(sep)[-1]: what follows the last sep, the whole of s without one.
SplitLast(s, sep) ==
    IF \A i \in 1..Len(s) : s[i] # sep THEN s
    ELSE SplitLast(Tail(s), sep)

\* s.startswith(p)
StartsWith(s, p) ==
    /\ Len(p) <= Len(s)
    /\ SubSeq(s, 1, Len(p)) = p

\* None, and the empty string: both are falsy where the code tests them.
None == <<>>

MCP_ == <<"mcp", "_">>
STDIO_ == <<"stdio", "-">>
INTERACTIVE_ == <<"interactive", "-">>
MCP_REGISTRY_ == <<"mcp", "-", "registry", "-">>

EmptyFn == [x \in {} |-> 0]

\* ---------------------------------------------------------------- inputs

\* Entry ids of the catalog, and IdMyDb that no catalog holds.
IdSqlite == <<"docker", "/", "sqlite">>
IdMyDb == <<"docker", "/", "my", "-", "db">>
IdNotes == <<"awesome", "/", "notes">>

PSqlite == <<"sqlite">>
PFs == <<"fs">>

\* RegistryEntry, the fields the mount engine reads.
EntryPodman == [launch_method |-> "podman", container_image |-> TRUE]
EntryUnknown == [launch_method |-> "unknown", container_image |-> FALSE]

\* The store as loaded from registry_entries.json.
CachedEntries ==
    (IdSqlite :> EntryPodman) @@ (IdNotes :> EntryUnknown)

\* Ids and prefixes the upstream client passes.
EntryIds == {IdSqlite, IdMyDb, IdNotes}
AddPrefixes == {None, PFs}
StdioPrefixes == {PSqlite, PFs}
RemoveIds == EntryIds \cup {STDIO_ \o p : p \in StdioPrefixes}

\* Tool definitions a child answers tools/list with. kind: "str" a tool with
\* a string name, "nonstr" one whose name is not a string (a number, null),
\* "noname" one without a name.
ToolList == [kind |-> "str", name |-> <<"list">>]
ToolReadQuery == [kind |-> "str", name |-> <<"read", "-", "query">>]
ToolNonStr == [kind |-> "nonstr", name |-> <<"7">>]
ToolNoName == [kind |-> "noname", name |-> <<>>]

ToolAnswers ==
    { <<ToolList, ToolReadQuery>>, <<ToolNoName, ToolList, ToolNonStr>> }

\* How the spawn of a stdio child ends.
SpawnOutcomes == {"started", "exited", "oserror"}

\* How the handshake and discovery of a child end: all four calls answered,
\* asyncio.TimeoutError, RuntimeError, or another exception.
RpcOutcomes == {"ok", "timeout", "runtime", "other"}

\* Environment maps of registry_config_set requests.
KApiKey == <<"API", "_", "KEY">>
KHome == <<"HOME">>
EnvRequests == { KApiKey :> "k", KHome :> "/tmp" }

\* Requests with keys in lower case, and with an allowed key next to one
\* that is not allowed.
KApiKeyLower == <<"api", "_", "key">>
ConfigRequests ==
    EnvRequests
    \cup { KApiKeyLower :> "l", (KApiKeyLower :> "l") @@ (KHome :> "/tmp"),
           (KApiKey :> "m") @@ (KHome :> "/tmp") }

\* How an activation goes outside the gateway: the pull and the start of
\* podman (registry_add), the spawn (registry_launch_stdio), the handshake
\* and the tools/list answer.
Outcome(pulled, started, rpc, tools) ==
    [pulled |-> pulled, started |-> started, rpc |-> rpc, tools |-> tools]

Outcomes ==
    { Outcome(FALSE, "started", "ok", <<>>) }
    \cup { Outcome(TRUE, o, "ok", <<>>) : o \in SpawnOutcomes \ {"started"} }
    \cup { Outcome(TRUE, "started", rpc, <<>>) : rpc \in RpcOutcomes \ {"ok"} }
    \cup { Outcome(TRUE, "started", "ok", tools) : tools \in ToolAnswers }

\* The calls of mcp_registry_launch_stdio.
LaunchCalls ==
    { [command |-> "nonexistent", prefix |-> PFs, env |-> EmptyFn] }
    \cup { [command |-> "npx", prefix |-> p, env |-> e] :
              p \in StdioPrefixes, e \in {EmptyFn} }

\* ----------------------------------------------------------------- state

VARIABLES
    entries,             \* Registry._entries: id -> entry
    active_mounts,       \* Registry._active_mounts: entry_id -> ActiveMount
    fastmcp_tools,       \* FastMCP's tool manager, dynamic tools: name -> tool
    dynamic_tools,       \* server._dynamic_tools: handle -> names
    clients,             \* MCPClientManager: handle -> pid of the child
    running_containers,  \* PodmanRunner._running_containers: id -> pid
    processes,           \* StdioServerRunner._processes: server_id -> pid
    children,            \* the child processes spawned: pid -> [kind, name,
                         \* entry, alive]
    nextpid,             \* pids given out so far
    closed,              \* pids whose RPC client has been closed
    torn,                \* pids of the children a deactivation has stopped
    tasks,               \* deactivations in flight, at an await
    search_index,        \* Registry._search_index: the ids it indexes
    sched,               \* RefreshScheduler, the per-source refresh locks and
                         \* Registry._source_status
    rpc_client,          \* the JSON-RPC client of one mount and its child
    disk,                \* the cache directory: registry_entries.json and
                         \* active_mounts.json
    ret                  \* the last call and what it returned

vars ==
    <<entries, active_mounts, fastmcp_tools, dynamic_tools, clients,
      running_containers, processes, children, nextpid, closed, torn, tasks,
      search_index, sched, rpc_client, disk, ret>>

Put(f, k, v) == [x \in (DOMAIN f) \cup {k} |-> IF x = k THEN v ELSE f[x]]

Drop(f, k) == [x \in (DOMAIN f) \ {k} |-> f[x]]

\* The program state as one value, for the operators that compute a handler.
\* pending: the request the handler serves has a tools/list_changed queued
\* (a request starts with none).
World ==
    [entries |-> entries, active_mounts |-> active_mounts,
     fastmcp_tools |-> fastmcp_tools, dynamic_tools |-> dynamic_tools,
     clients |-> clients, running_containers |-> running_containers,
     processes |-> processes, children |-> children, nextpid |-> nextpid,
     closed |-> closed, torn |-> torn, search_index |-> search_index,
     disk |-> disk, pending |-> FALSE]

SetWorld(w) ==
    /\ entries' = w.entries
    /\ active_mounts' = w.active_mounts
    /\ fastmcp_tools' = w.fastmcp_tools
    /\ dynamic_tools' = w.dynamic_tools
    /\ clients' = w.clients
    /\ running_containers' = w.running_containers
    /\ processes' = w.processes
    /\ children' = w.children
    /\ nextpid' = w.nextpid
    /\ closed' = w.closed
    /\ torn' = w.torn
    /\ search_index' = w.search_index
    /\ disk' = w.disk

\* --------------------------------------------- registry.py, the snapshot

\* str.lower, on the words of the ids
LowerWord(tok) ==
    CASE tok = "SQLITE" -> "sqlite" [] tok = "Docker" -> "docker" [] OTHER -> tok

Lower(str) == [i \in 1..Len(str) |-> LowerWord(str[i])]

LaunchMethods == {"podman", "stdio-proxy", "remote-http", "unknown"}

\* RegistryEntry.validate_id: the id in lower case; an empty id, or one with
\* a character that is no letter, digit, "-", "_" or "/", is refused.
IdChars == {"docker", "mcpservers", "awesome", "sqlite", "my", "db", "notes", "time",
            "fetch", "/", "-", "_"}
ValidId(id) == id # <<>> /\ \A i \in 1..Len(id) : LowerWord(id[i]) \in IdChars
validate_id(id) == Lower(id)

\* The values of a JSON file that stand for an optional field: null, a
\* string, a number.
Null == [type |-> "null"]
JsonStr(str) == [type |-> "str", val |-> str]
JsonNum(n) == [type |-> "num", val |-> n]

\* entry.model_dump(mode="json"): the id, the value of the LaunchMethod, the
\* image reference or null.
dump_entry(id, entry) ==
    [id |-> id, launch_method |-> entry.launch_method,
     container_image |-> IF entry.container_image THEN JsonStr("image") ELSE Null]

\* RegistryEntry(**entry_data): <<id, entry>>, None on a ValidationError.
parse_entry(data) ==
    IF ~ValidId(data.id) \/ data.launch_method \notin LaunchMethods THEN None
    ELSE <<validate_id(data.id),
           [launch_method |-> data.launch_method,
            container_image |-> data.container_image # Null]>>

\* Registry._save_entries_to_cache: the file lists the dumps of the entries.
dump_entries(store) == {dump_entry(id, store[id]) : id \in DOMAIN store}

\* Registry._load_entries_from_cache: the entries of the file that
\* validate, by their id.
load_entries(file) ==
    LET parsed == {parse_entry(data) : data \in file} \ {None}
    IN [id \in {x[1] : x \in parsed} |-> (CHOOSE x \in parsed : x[1] = id)[2]]

\* mount.model_dump(mode="json"): container_id and pid are null when None.
dump_mount(mount) ==
    [entry_id |-> mount.entry_id, prefix |-> mount.prefix,
     container_id |-> IF mount.container_id = None THEN Null
                      ELSE JsonStr(mount.container_id),
     pid |-> IF mount.pid = 0 THEN Null ELSE JsonNum(mount.pid),
     environment |-> mount.environment, tools |-> mount.tools]

\* ActiveMount(**mount_data)
parse_mount(data) ==
    [entry_id |-> data.entry_id, prefix |-> data.prefix,
     container_id |-> IF data.container_id = Null THEN None ELSE data.container_id.val,
     pid |-> IF data.pid = Null THEN 0 ELSE data.pid.val,
     environment |-> data.environment, tools |-> data.tools]

\* Registry._save_active_mounts: the dumps of the mounts, in the order of
\* the dict.
dump_mounts(mounts) == [i \in 1..Len(mounts) |-> dump_mount(mounts[i])]

RECURSIVE load_mounts(_, _)
\* Registry._load_active_mounts: self._active_mounts[mount.entry_id] = mount
\* for the records of the file, in their order.
load_mounts(table, file) ==
    IF file = <<>> THEN table
    ELSE LET mount == parse_mount(Head(file))
             at == {i \in 1..Len(table) : table[i].entry_id = mount.entry_id}
         IN load_mounts(IF at = {} THEN Append(table, mount)
                        ELSE [i \in 1..Len(table) |-> IF i \in at THEN mount
                                                       ELSE table[i]],
                        Tail(file))

save_entries_to_cache(w) == [w EXCEPT !.disk.entries = dump_entries(w.entries)]

save_active_mounts(w) == [w EXCEPT !.disk.mounts = dump_mounts(w.active_mounts)]

\* ------------------------------------------------------ registry.py, mounts

\* Indices of the records of entry_id in the mount table (a dict in the
\* code: insertion-ordered, one value per key).
MountIndex(mounts, entry_id) ==
    {i \in 1..Len(mounts) : mounts[i].entry_id = entry_id}

\* A lookup by prefix, in a table keyed by entry_id.
get_active_mount_by_prefix(w, entry_id) ==
    SelectSeq(w.active_mounts, LAMBDA m : m.prefix = entry_id)

\* Registry.get_active_mount: <<the record>>, None without one.
get_active_mount(w, entry_id) ==
    SelectSeq(w.active_mounts, LAMBDA m : m.entry_id = entry_id)

\* A lookup that answers an id the store does not hold with a blank podman
\* entry.
get_entry_or_blank(w, entry_id) ==
    <<IF entry_id \in DOMAIN w.entries THEN w.entries[entry_id] ELSE EntryPodman>>

\* Registry.get_entry: <<the entry>>, None without one.
get_entry(w, entry_id) ==
    IF entry_id \in DOMAIN w.entries THEN <<w.entries[entry_id]>> ELSE None

\* Registry.add_active_mount: self._active_mounts[mount.entry_id] = mount
add_active_mount(w, mount) ==
    LET at == MountIndex(w.active_mounts, mount.entry_id)
    IN save_active_mounts(
          [w EXCEPT !.active_mounts =
              IF at = {} THEN Append(@, mount)
              ELSE [i \in 1..Len(@) |-> IF i \in at THEN mount ELSE @[i]]])

\* A pop with the prefix for key.
remove_active_mount_by_prefix(w, entry_id) ==
    [w EXCEPT !.active_mounts = SelectSeq(@, LAMBDA m : m.prefix # entry_id)]

\* Registry.remove_active_mount: self._active_mounts.pop(entry_id, None)
remove_active_mount(w, entry_id) ==
    IF MountIndex(w.active_mounts, entry_id) = {} THEN w
    ELSE save_active_mounts(
            [w EXCEPT !.active_mounts = SelectSeq(@, LAMBDA m : m.entry_id # entry_id)])

\* Registry.list_active_mounts: list(self._active_mounts.values())
list_active_mounts(w) == w.active_mounts

\* dict.update of the mount's environment
EnvUpdate(old, new) ==
    [k \in (DOMAIN old) \cup (DOMAIN new) |-> IF k \in DOMAIN new THEN new[k] ELSE old[k]]

\* An update of the environment that is not written to the snapshot.
update_environment_unsaved(w, entry_id, environment) ==
    [w EXCEPT !.active_mounts =
        [i \in 1..Len(@) |->
            IF @[i].entry_id = entry_id
            THEN [@[i] EXCEPT !.environment = EnvUpdate(@, environment)]
            ELSE @[i]]]

\* Registry.update_mount_environment
update_mount_environment(w, entry_id, environment) ==
    IF MountIndex(w.active_mounts, entry_id) = {} THEN w
    ELSE save_active_mounts(
            [w EXCEPT !.active_mounts =
                [i \in 1..Len(@) |->
                    IF @[i].entry_id = entry_id
                    THEN [@[i] EXCEPT !.environment = EnvUpdate(@, environment)]
                    ELSE @[i]]])

\* ----------------------------------------------------------- the children

\* A fresh process: a child of the given kind and name, started for entry_id.
\* lives: it is running when the spawn returns.
SpawnChild(w, kind, name, entry_id, lives) ==
    [w EXCEPT !.nextpid = @ + 1,
              !.children = Put(@, w.nextpid + 1,
                               [kind |-> kind, name |-> name, entry |-> entry_id,
                                alive |-> lives])]

\* The children that run.
Alive(w) == {p \in DOMAIN w.children : w.children[p].alive}

\* The process is gone: killed, terminated, or it exited.
Reap(w, pid) ==
    [w EXCEPT !.children = [p \in DOMAIN @ |-> IF p = pid THEN [@[p] EXCEPT !.alive = FALSE]
                                                ELSE @[p]]]

\* podman refuses a second container of a --name in use: the podman process
\* of the second run exits at once.
NameInUse(w, name) ==
    \E p \in Alive(w) :
        w.children[p].kind = "container" /\ w.children[p].name = name

\* --------------------------------------------------------- podman_runner.py

\* PodmanRunner.run_interactive_container. started: create_subprocess_exec
\* returned a process. The pseudo id is tracked without a look at the process.
run_interactive_container(w, name, entry_id, started) ==
    IF ~started THEN [w |-> w, container_id |-> None, pid |-> 0]
    ELSE LET w1 == SpawnChild(w, "container", name, entry_id, ~NameInUse(w, name))
             container_id == INTERACTIVE_ \o name
         IN [w |-> [w1 EXCEPT !.running_containers = Put(@, container_id, w1.nextpid)],
             container_id |-> container_id,
             pid |-> w1.nextpid]

\* The live container podman knows by this name, 0 without one (the pseudo
\* id "interactive-<name>" is no name podman knows).
PodmanContainer(w, container_id) ==
    LET ps == {p \in Alive(w) :
                  /\ w.children[p].kind = "container"
                  /\ w.children[p].name = container_id}
    IN IF ps = {} THEN 0 ELSE CHOOSE p \in ps : TRUE

\* PodmanRunner.stop_container and kill_container: podman stop / podman kill
\* end with 0 only for a container podman knows; the id is untracked then.
stop_container(w, container_id) ==
    LET p == PodmanContainer(w, container_id)
    IN IF p = 0 THEN [w |-> w, ok |-> FALSE]
       ELSE [w |-> [Reap(w, p) EXCEPT !.running_containers = Drop(@, container_id)],
             ok |-> TRUE]

kill_container(w, container_id) == stop_container(w, container_id)

RECURSIVE stop_or_kill_each(_, _)
\* The loop of PodmanRunner.cleanup_all over the ids it read at its start:
\* stop_container, and kill_container where the stop failed.
stop_or_kill_each(w, ids) ==
    IF ids = {} THEN [w |-> w, cleaned |-> 0]
    ELSE LET container_id == CHOOSE x \in ids : TRUE
             stopped == stop_container(w, container_id)
             killed == kill_container(w, container_id)
             rest == stop_or_kill_each(IF stopped.ok THEN stopped.w ELSE killed.w,
                                       ids \ {container_id})
         IN [w |-> rest.w,
             cleaned |-> rest.cleaned + (IF stopped.ok \/ killed.ok THEN 1 ELSE 0)]

\* PodmanRunner.cleanup_all
podman_cleanup_all(w) == stop_or_kill_each(w, DOMAIN w.running_containers)

\* ---------------------------------------------------------- stdio_runner.py

\* shutil.which(command)
CommandAvailable(command) == command = "npx"

\* A spawn that does not look at the ids it tracks.
spawn_untracked_check(w, server_id, command, outcome) ==
    IF ~CommandAvailable(command) THEN [w |-> w, raised |-> "FileNotFoundError", pid |-> 0]
    ELSE LET w1 == SpawnChild(w, "stdio", server_id, server_id, TRUE)
         IN [w |-> [w1 EXCEPT !.processes = Put(@, server_id, w1.nextpid)],
             raised |-> "", pid |-> w1.nextpid]

\* StdioServerRunner.spawn_server up to its first await: the checks of the
\* command and of the id. The exception raised, "" without one.
spawn_checks(w, server_id, command) ==
    IF ~CommandAvailable(command) THEN "FileNotFoundError"
    ELSE IF server_id \in DOMAIN w.processes THEN "RuntimeError"
    ELSE ""

\* StdioServerRunner.spawn_server from create_subprocess_exec on: the process
\* is made, the 0.5 s settle is waited for, and the process is stored under
\* its id without a second look at the ids stored. outcome: "started",
\* "exited" (the process ended within the settle), "oserror"
\* (create_subprocess_exec raised).
spawn_process(w, server_id, outcome) ==
    IF outcome = "oserror" THEN [w |-> w, raised |-> "Exception", pid |-> 0]
    ELSE IF outcome = "exited"
    THEN [w |-> SpawnChild(w, "stdio", server_id, server_id, FALSE),
          raised |-> "RuntimeError", pid |-> w.nextpid + 1]
    ELSE LET w1 == SpawnChild(w, "stdio", server_id, server_id, TRUE)
         IN [w |-> [w1 EXCEPT !.processes = Put(@, server_id, w1.nextpid)],
             raised |-> "", pid |-> w1.nextpid]

\* StdioServerRunner.spawn_server, run without another task in between.
spawn_server(w, server_id, command, outcome) ==
    IF spawn_checks(w, server_id, command) # ""
    THEN [w |-> w, raised |-> spawn_checks(w, server_id, command), pid |-> 0]
    ELSE spawn_process(w, server_id, outcome)

\* StdioServerRunner.stop_server: terminate, kill after the timeout, untrack.
stop_server(w, server_id) ==
    IF server_id \notin DOMAIN w.processes THEN [w |-> w, ok |-> FALSE]
    ELSE LET p == w.processes[server_id]
         IN [w |-> [Reap(w, p) EXCEPT !.processes = Drop(@, server_id)],
             ok |-> TRUE]

\* A stop that kills at once.
kill_at_once(w, server_id, obeys) ==
    IF server_id \notin DOMAIN w.processes THEN <<>>
    ELSE IF w.processes[server_id] \notin Alive(w) THEN <<>>
    ELSE <<"kill">>

\* The signals StdioServerRunner.stop_server sends to the process: none to
\* one that has ended; terminate; kill after it when process.wait() did not
\* return within the timeout. obeys: the process ends on terminate in time.
stop_signals(w, server_id, obeys) ==
    IF server_id \notin DOMAIN w.processes THEN <<>>
    ELSE IF w.processes[server_id] \notin Alive(w) THEN <<>>
    ELSE IF obeys THEN <<"terminate">>
    ELSE <<"terminate", "kill">>

\* StdioServerRunner.is_running and get_server_pid
is_running(w, server_id) ==
    server_id \in DOMAIN w.processes /\ w.processes[server_id] \in Alive(w)

get_server_pid(w, server_id) ==
    IF is_running(w, server_id) THEN w.processes[server_id] ELSE 0

RECURSIVE stop_each(_, _)
\* The loop of StdioServerRunner.cleanup_all over the ids it read at its
\* start: stop_server for each.
stop_each(w, ids) ==
    IF ids = {} THEN w
    ELSE LET server_id == CHOOSE x \in ids : TRUE
         IN stop_each(stop_server(w, server_id).w, ids \ {server_id})

\* StdioServerRunner.cleanup_all
stdio_cleanup_all(w) == stop_each(w, DOMAIN w.processes)

\* StdioServerRunner.list_running: the tracked ids whose process runs.
list_running(w) ==
    {server_id \in DOMAIN w.processes : w.processes[server_id] \in Alive(w)}

\* ------------------------------------------------- the RPC client manager

\* MCPClientManager.register_client(handle, client, process)
register_client(w, handle, pid) == [w EXCEPT !.clients = Put(@, handle, pid)]

\* MCPClientManager.get_client: the child the client talks to, 0 without one.
get_client(w, handle) == IF handle \in DOMAIN w.clients THEN w.clients[handle] ELSE 0

\* MCPClient.close: cancels the reader and closes the child's stdin. exits:
\* the child ends on the end of its input.
close_client(w, pid, exits) ==
    [(IF exits THEN Reap(w, pid) ELSE w) EXCEPT !.closed = @ \cup {pid}]

\* MCPClientManager.remove_client: the client leaves the map and is closed.
remove_client(w, handle, exits) ==
    IF handle \notin DOMAIN w.clients THEN w
    ELSE [close_client(w, w.clients[handle], exits) EXCEPT !.clients = Drop(@, handle)]

RECURSIVE close_each(_, _, _)
\* MCPClientManager.close_all: every client is closed, the map is cleared.
close_each(w, handles, exits) ==
    IF handles = {} THEN w
    ELSE LET handle == CHOOSE x \in handles : TRUE
         IN close_each(remove_client(w, handle, exits), handles \ {handle}, exits)

close_all(w, exits) == close_each(w, DOMAIN w.clients, exits)

\* A child that is gone answers nothing: the call fails.
Handshake(w, pid, rpc) ==
    IF pid \notin Alive(w) /\ rpc = "ok" THEN "other" ELSE rpc

\* ------------------------------------- schema_converter.py, the tool surface

\* create_dynamic_tool_function: func.__name__ = tool_name.replace("-", "_")
FuncName(tool_name) == Replace(tool_name, "-", "_")

\* convert_tool_to_function: full_tool_name = f"mcp_{prefix}_{tool_name}"
FullToolName(prefix, tool_name) == MCP_ \o prefix \o <<"_">> \o tool_name

\* validate_tool_schema: a definition without "name" is rejected.
validate_tool_schema(tool) == tool.kind # "noname"

\* convert_tool_to_function raises on a name that is no string (it has no
\* replace); the caller logs and goes on to the next tool.
ConvertRaises(tool) == tool.kind = "nonstr"

\* FastMCP.add_tool(fn): the tool is registered under the function's name;
\* a tool of that name is replaced. The function's executor is bound to the
\* handle of the child and calls the tool by its remote name. Within a
\* request, FastMCP queues a tools/list_changed for the change.
add_tool(w, name, handle, tool_name) ==
    [w EXCEPT !.fastmcp_tools = Put(@, name, [handle |-> handle, tool_name |-> tool_name]),
              !.pending = TRUE]

\* FastMCP.remove_tool(name) raises for an unknown name, before anything is
\* queued; the caller logs it.
remove_tool(w, name) ==
    IF name \notin DOMAIN w.fastmcp_tools THEN w
    ELSE [w EXCEPT !.fastmcp_tools = Drop(@, name), !.pending = TRUE]

\* The end of a request: FastMCP sends the queued notification, once however
\* many changes queued it. The number of tools/list_changed sent.
Flushed(w) == IF w.pending THEN 1 ELSE 0

RECURSIVE register_tools(_, _, _, _, _)
\* The registration loop of an activation: the world with the tools added,
\* and registered_tool_names.
register_tools(w, handle, prefix, tools, names) ==
    IF tools = <<>> THEN [w |-> w, names |-> names]
    ELSE LET tool == Head(tools)
         IN IF ~validate_tool_schema(tool) \/ ConvertRaises(tool)
            THEN register_tools(w, handle, prefix, Tail(tools), names)
            ELSE register_tools(add_tool(w, FuncName(tool.name), handle, tool.name),
                                handle, prefix, Tail(tools),
                                Append(names, FullToolName(prefix, tool.name)))

\* tool_names = [tool.get("name", "unknown") for tool in tools]
tool_names(tools) ==
    [i \in 1..Len(tools) |->
        IF tools[i].kind = "noname" THEN <<"unknown">> ELSE tools[i].name]

\* ActiveMount(...) validates: tools is a list of strings.
ActiveMountValid(tools) == \A i \in 1..Len(tools) : tools[i].kind # "nonstr"

\* ------------------------- schema_converter.py, the generated function

\* Values of arguments and defaults: JSON null is None in Python.
PyNone == Null
JsonBool(b) == [type |-> "bool", val |-> b]
JsonList(str) == [type |-> "list", val |-> str]

\* The marker of a required parameter.
Ellipsis == [type |-> "ellipsis"]

\* A property of an inputSchema. default: <<the value of "default">>, <<>>
\* for a property without that key.
Property(name, default) == [name |-> name, default |-> default]

PText == Property("text", <<>>)
PCount == Property("count", <<JsonNum(10)>>)
PEnabled == Property("enabled", <<JsonBool(FALSE)>>)
PTags == Property("tags", <<>>)
PNote == Property("note", <<Null>>)

\* inputSchemas of remote tools: the properties and the required list.
Schema(properties, required) == [properties |-> properties, required |-> required]

Schemas ==
    { Schema({PText, PCount, PEnabled, PTags}, {"text"}),
      Schema({PText, PCount, PEnabled, PTags, PNote}, {"text"}),
      Schema({PText, PCount, PTags}, {"text", "count"}),
      Schema({PText, PCount, PEnabled, PTags, PNote}, {"text", "tags"}) }

\* What a caller passes for a parameter when it passes it.
Supplied ==
    [text |-> JsonStr("hello"), count |-> JsonNum(5), enabled |-> JsonBool(TRUE),
     tags |-> JsonList("ab"), note |-> JsonStr("n")]

ParamNames == {"text", "count", "enabled", "tags", "note"}

\* parse_schema_property: the default value of the parameter.
parse_schema_property(prop, required) ==
    IF required THEN Ellipsis
    ELSE IF prop.default # <<>> THEN prop.default[1]
    ELSE PyNone

\* create_dynamic_tool_function: raw_defaults
raw_defaults(schema) ==
    [name \in {prop.name : prop \in schema.properties} |->
        LET prop == CHOOSE x \in schema.properties : x.name = name
            default_value == parse_schema_property(prop, name \in schema.required)
        IN IF default_value = Ellipsis THEN PyNone ELSE default_value]

\* A generated function that applies every entry of raw_defaults.
dynamic_tool_all_defaults(schema, kwargs) ==
    LET defaults == raw_defaults(schema)
    IN [name \in DOMAIN defaults \cup DOMAIN kwargs |->
           IF name \in DOMAIN kwargs THEN kwargs[name] ELSE defaults[name]]

\* dynamic_tool(**kwargs): clean_kwargs, the arguments the executor gets.
dynamic_tool(schema, kwargs) ==
    LET defaults == raw_defaults(schema)
        applied == {name \in DOMAIN defaults : defaults[name] # PyNone}
    IN [name \in applied \cup DOMAIN kwargs |->
           IF name \in DOMAIN kwargs THEN kwargs[name] ELSE defaults[name]]

\* ------------------------------------------------- server.py, activation

Ret(w, result, pid) == [w |-> w, result |-> result, pid |-> pid]

\* registry_add: the prefix when none is given
DerivedPrefix(entry_id) == Replace(SplitLast(entry_id, "/"), "-", "_")

\* registry_add from the pull of the image on. pulled: podman pull succeeded;
\* started: the podman process was created; rpc: how handshake and discovery
\* end; tools: the tools/list answer.
add_from_pull(w, entry_id, prefix, pulled, started, rpc, tools) ==
    LET entry == get_entry(w, entry_id)[1]
        pfx == IF prefix = None THEN DerivedPrefix(entry_id) ELSE prefix
    IN
    IF ~(entry.launch_method = "podman" /\ entry.container_image)
    THEN Ret(w, "unsupported", 0)
    ELSE IF ~pulled THEN Ret(w, "pull_failed", 0)
    ELSE
    LET run == run_interactive_container(w, MCP_REGISTRY_ \o pfx, entry_id, started)
        hs == Handshake(run.w, run.pid, rpc)
    IN
    IF run.container_id = None THEN Ret(run.w, "start_failed", 0)
    ELSE IF hs = "timeout" THEN Ret(Reap(run.w, run.pid), "timeout", run.pid)
    ELSE IF hs # "ok" THEN Ret(Reap(run.w, run.pid), "init_failed", run.pid)
    ELSE
    LET w1 == register_client(run.w, run.container_id, run.pid)
        reg == register_tools(w1, run.container_id, pfx, tools, <<>>)
        w2 == [reg.w EXCEPT !.dynamic_tools = Put(@, run.container_id, reg.names)]
        mount == [entry_id |-> entry_id, prefix |-> pfx,
                  container_id |-> run.container_id, pid |-> 0,
                  environment |-> EmptyFn, tools |-> tool_names(tools)]
    IN
    \* ActiveMount(...) is built outside the try: its error leaves the handler.
    IF ~ActiveMountValid(tools) THEN Ret(w2, "raised", run.pid)
    ELSE Ret(add_active_mount(w2, mount), "activated", run.pid)

\* The checks of registry_add before its first await on a child: the result
\* returned, "" when the handler goes on.
add_checks(w, entry_id) ==
    IF get_active_mount(w, entry_id) # None THEN "already_active"
    ELSE IF get_entry(w, entry_id) = None THEN "entry_not_found"
    ELSE ""

\* registry_add, run without another task in between.
registry_add(w, entry_id, prefix, pulled, started, rpc, tools) ==
    IF add_checks(w, entry_id) # "" THEN Ret(w, add_checks(w, entry_id), 0)
    ELSE add_from_pull(w, entry_id, prefix, pulled, started, rpc, tools)

\* validate_command_available: shutil.which(command)
validate_command_available(command) == CommandAvailable(command)

\* The cleanup of registry_launch_stdio's except branches.
StopIfTracked(w, server_id) ==
    IF server_id \in DOMAIN w.processes THEN stop_server(w, server_id).w ELSE w

\* registry_launch_stdio from the return of spawn_server on. sp: what
\* spawn_server did; rpc, tools as above.
launch_from_spawn(prefix, env, sp, rpc, tools) ==
    LET server_id == STDIO_ \o prefix
        hs == Handshake(sp.w, sp.pid, rpc)
    IN
    \* except FileNotFoundError, except RuntimeError: no cleanup
    IF sp.raised \in {"FileNotFoundError", "RuntimeError"}
    THEN Ret(sp.w, "launch_failed", sp.pid)
    ELSE IF sp.raised # "" THEN Ret(StopIfTracked(sp.w, server_id), "launch_failed", sp.pid)
    ELSE IF hs = "runtime" THEN Ret(sp.w, "launch_failed", sp.pid)
    ELSE IF hs = "timeout" THEN Ret(StopIfTracked(sp.w, server_id), "timeout", sp.pid)
    ELSE IF hs # "ok" THEN Ret(StopIfTracked(sp.w, server_id), "launch_failed", sp.pid)
    ELSE
    LET w1 == register_client(sp.w, server_id, sp.pid)
        reg == register_tools(w1, server_id, prefix, tools, <<>>)
        w2 == [reg.w EXCEPT !.dynamic_tools = Put(@, server_id, reg.names)]
        mount == [entry_id |-> server_id, prefix |-> prefix,
                  container_id |-> server_id, pid |-> sp.pid,
                  environment |-> env, tools |-> tool_names(tools)]
    IN
    \* ActiveMount(...) is built inside the try: except Exception cleans up.
    IF ~ActiveMountValid(tools)
    THEN Ret(StopIfTracked(w2, server_id), "launch_failed", sp.pid)
    ELSE Ret(add_active_mount(w2, mount), "activated", sp.pid)

\* The checks of registry_launch_stdio before spawn_server: the result
\* returned, "" when the handler goes on.
launch_checks(w, command, prefix) ==
    IF ~validate_command_available(command) THEN "validation_failed"
    ELSE IF get_active_mount(w, STDIO_ \o prefix) # None THEN "already_active"
    ELSE ""

\* registry_launch_stdio, run without another task in between. outcome: how
\* the spawn ends.
registry_launch_stdio(w, command, prefix, env, outcome, rpc, tools) ==
    IF launch_checks(w, command, prefix) # ""
    THEN Ret(w, launch_checks(w, command, prefix), 0)
    ELSE launch_from_spawn(prefix, env,
                           spawn_server(w, STDIO_ \o prefix, command, outcome),
                           rpc, tools)

\* ----------------------------------------------- server.py, deactivation

\* The steps with the child stopped before its client is closed.
RemoveStepsChildFirst == <<"tools", "child", "rpc", "record">>

\* The steps of registry_remove in the order of its statements: the dynamic
\* tools, the RPC client, the child, the mount record.
RemoveSteps == <<"tools", "rpc", "child", "record">>

\* The children a step has ended are stopped by the deactivation.
Stopped(w0, w1) ==
    [w1 EXCEPT !.torn = @ \cup (Alive(w0) \ Alive(w1))]

RECURSIVE remove_tools(_, _)
\* for tool_name in _dynamic_tools[container_id]: mcp.remove_tool(tool_name)
remove_tools(w, names) ==
    IF names = <<>> THEN w ELSE remove_tools(remove_tool(w, Head(names)), Tail(names))

\* The stop of the child: podman stop, podman kill when it failed, for a
\* handle that is no "interactive-" one; stdio_runner.stop_server for a mount
\* with a pid and no container_id.
stop_child(w, mount) ==
    LET cid == mount.container_id
        stopped == stop_container(w, cid)
        w1 == IF cid # None /\ ~StartsWith(cid, INTERACTIVE_)
              THEN IF stopped.ok THEN stopped.w ELSE kill_container(w, cid).w
              ELSE w
    IN IF mount.pid # 0 /\ cid = None THEN stop_server(w1, mount.entry_id).w ELSE w1

\* One step of registry_remove on ts = [w, trace]; trace lists the steps
\* the deactivation has taken. exits: the child ends when its client closes.
remove_step(ts, mount, step, exits) ==
    LET w == ts.w
        cid == mount.container_id
        done(w1) == [w |-> Stopped(w, w1), trace |-> Append(ts.trace, step)]
    IN CASE step = "tools" ->
                IF cid # None /\ cid \in DOMAIN w.dynamic_tools
                THEN done([remove_tools(w, w.dynamic_tools[cid])
                              EXCEPT !.dynamic_tools = Drop(@, cid)])
                ELSE ts
         [] step = "rpc" ->
                IF cid # None THEN done(remove_client(w, cid, exits)) ELSE ts
         [] step = "child" ->
                IF (cid # None /\ ~StartsWith(cid, INTERACTIVE_)) \/ (mount.pid # 0 /\ cid = None)
                THEN done(stop_child(w, mount))
                ELSE ts
         [] OTHER -> done(remove_active_mount(w, mount.entry_id))

RECURSIVE remove_from(_, _, _, _)
\* The steps from the i-th on, run to the end.
remove_from(ts, mount, i, exits) ==
    IF i > Len(RemoveSteps) THEN ts
    ELSE remove_from(remove_step(ts, mount, RemoveSteps[i], exits), mount, i + 1, exits)

\* registry_remove, run without another handler in between.
registry_remove(w, entry_id, exits) ==
    LET existing == get_active_mount(w, entry_id)
        ts == remove_from([w |-> w, trace |-> <<>>], existing[1], 1, exits)
    IN IF existing = None
       THEN [w |-> w, result |-> "not_active", handle |-> None, trace |-> <<>>]
       ELSE [w |-> ts.w, result |-> "deactivated", handle |-> existing[1].container_id,
             trace |-> ts.trace]

\* --------------------------------------------- server.py, configuration

Upper(tok) ==
    CASE tok = "api" -> "API" [] tok = "key" -> "KEY" [] tok = "home" -> "HOME"
      [] OTHER -> tok

\* ConfigSetRequest.validate_env_keys: allowed_prefixes
AllowedPrefixes ==
    { <<"API", "_", "KEY">>, <<"API", "_", "TOKEN">>, <<"AUTH", "_">>,
      <<"DATABASE", "_">>, <<"DB", "_">>, <<"GITHUB", "_">>, <<"OPENAI", "_">>,
      <<"ANTHROPIC", "_">>, <<"AWS", "_">>, <<"AZURE", "_">>, <<"GCP", "_">>,
      <<"SLACK", "_">>, <<"DISCORD", "_">>, <<"NOTION", "_">>, <<"MCP", "_">> }

\* ConfigSetRequest.validate_env_keys
validate_env_keys(environment) ==
    \A key \in DOMAIN environment :
        \E prefix \in AllowedPrefixes :
            StartsWith([i \in 1..Len(key) |-> Upper(key[i])], prefix)

\* A request handler that applies the keys the allowlist lets through.
config_set_allowed_keys(w, entry_id, environment) ==
    LET allowed == {key \in DOMAIN environment :
                       validate_env_keys([k \in {key} |-> environment[k]])}
    IN IF get_active_mount(w, entry_id) = None THEN Ret(w, "not_active", 0)
       ELSE Ret(update_mount_environment(w, entry_id,
                                         [k \in allowed |-> environment[k]]),
                IF allowed = DOMAIN environment THEN "updated" ELSE "invalid", 0)

\* registry_config_set
registry_config_set(w, entry_id, environment) ==
    IF ~validate_env_keys(environment) THEN Ret(w, "invalid", 0)
    ELSE IF get_active_mount(w, entry_id) = None THEN Ret(w, "not_active", 0)
    ELSE Ret(update_mount_environment(w, entry_id, environment), "updated", 0)

\* ---------------------------------------------------- server.py, dispatch

RECURSIVE Split(_, _)
\* s.split(sep)
Split(s, sep) ==
    IF \A i \in 1..Len(s) : s[i] # sep THEN <<s>>
    ELSE LET at == CHOOSE i \in 1..Len(s) :
                       s[i] = sep /\ \A j \in 1..(i - 1) : s[j] # sep
         IN <<SubSeq(s, 1, at - 1)>> \o Split(SubSeq(s, at + 1, Len(s)), sep)

RECURSIVE Join(_, _)
\* sep.join(parts)
Join(parts, sep) ==
    IF parts = <<>> THEN <<>>
    ELSE IF Len(parts) = 1 THEN parts[1]
    ELSE parts[1] \o <<sep>> \o Join(Tail(parts), sep)

\* MCPClient.call_tool: the request is written to the child unless the client
\* is closed.
call_tool(w, pid, name) ==
    [result |-> IF pid \in w.closed THEN "failed" ELSE "sent", pid |-> pid, name |-> name]

NoCall(result) == [result |-> result, pid |-> 0, name |-> <<>>]

\* registry_exec: the mount is the first of the table with the prefix.
registry_exec(w, tool_name) ==
    LET parts == Split(tool_name, "_")
        prefix == parts[2]
        actual_tool_name == Join(SubSeq(parts, 3, Len(parts)), "_")
        found == SelectSeq(w.active_mounts, LAMBDA m : m.prefix = prefix)
        client == get_client(w, found[1].container_id)
    IN IF ~StartsWith(tool_name, MCP_) \/ Len(parts) < 3 THEN NoCall("invalid")
       ELSE IF found = <<>> THEN NoCall("no_mount")
       ELSE IF client = 0 THEN NoCall("no_client")
       ELSE call_tool(w, client, actual_tool_name)

\* tool_executor of a dynamic tool: the client of the handle the tool was
\* registered for, the tool's remote name.
tool_executor(w, name) ==
    LET tool == w.fastmcp_tools[name]
        client == get_client(w, tool.handle)
    IN IF client = 0 THEN NoCall("no_client")
       ELSE call_tool(w, client, tool.tool_name)

\* ----------------------------------- registry.py, the store and its status

\* What a scraper returns: the entries, each with its id.
Scraped(id, entry) == [id |-> id, entry |-> entry]

IdTime == <<"mcpservers", "/", "time">>
IdFetch == <<"mcpservers", "/", "fetch">>

\* scrape_docker_registry returns the entries of the cloned registry, or
\* none when the clone failed; scrape_mcpservers_org returns its entries.
ScrapeOutputs(source) ==
    IF source = "docker"
    THEN { <<Scraped(IdSqlite, EntryPodman), Scraped(IdMyDb, EntryPodman)>>, <<>> }
    ELSE { <<Scraped(IdTime, EntryUnknown), Scraped(IdFetch, EntryUnknown)>> }

\* What is left of a bulk insert that stops after its first entry.
bulk_add_first_only(w, batch) ==
    LET w1 == IF batch = <<>> THEN w
              ELSE [w EXCEPT !.entries = Put(@, batch[1].id, batch[1].entry)]
    IN [w |-> [w1 EXCEPT !.search_index = DOMAIN w1.entries], count |-> Len(batch)]

RECURSIVE insert_entries(_, _)
\* for entry in entries: self._entries[entry.id] = entry
insert_entries(store, batch) ==
    IF batch = <<>> THEN store
    ELSE insert_entries(Put(store, Head(batch).id, Head(batch).entry), Tail(batch))

\* Registry._rebuild_search_index: the index lists the entries of the store.
rebuild_search_index(w) == [w EXCEPT !.search_index = DOMAIN w.entries]

\* Registry.bulk_add_entries: under the entries lock and without an await,
\* the entries are put into the store and the index is rebuilt.
bulk_add_entries(w, batch) ==
    [w |-> save_entries_to_cache(
              rebuild_search_index([w EXCEPT !.entries = insert_entries(@, batch)])),
     count |-> Len(batch)]

\* Registry.add_entry
add_entry(w, scraped) ==
    save_entries_to_cache(
        rebuild_search_index([w EXCEPT !.entries = Put(@, scraped.id, scraped.entry)]))

\* SourceRefreshStatus; last_refresh 0 and error_message "" stand for None.
SourceStatus(status, last_refresh, entry_count, error_message) ==
    [status |-> status, last_refresh |-> last_refresh, entry_count |-> entry_count,
     error_message |-> error_message]

\* No status of the source in Registry._source_status.
NoStatus == SourceStatus("none", 0, 0, "")

\* Registry.refresh_interval, in readings of the clock.
RefreshInterval == 1

\* Registry.should_refresh_source
should_refresh_source(sc, source) ==
    LET status == sc.status[source]
    IN IF status.status = "none" \/ status.last_refresh = 0 THEN TRUE
       ELSE sc.clock - status.last_refresh >= RefreshInterval

\* ------------------------------------------------ registry.py, the search

\* models.py, class SourceType: the names of its members and their values.
SourceType ==
    [DOCKER |-> "docker", MCPSERVERS |-> "mcpservers", AWESOME |-> "awesome",
     CUSTOM |-> "custom"]

\* The entries of the catalog, as the search reads them.
CatalogEntry(id, source, official, featured, categories, tags, container_image,
             requires_api_key) ==
    [id |-> id, source |-> source, official |-> official, featured |-> featured,
     categories |-> categories, tags |-> tags, container_image |-> container_image,
     requires_api_key |-> requires_api_key]

\* The sum of _calculate_popularity_score for a source that is compared with
\* official_source and with SourceType.DOCKER.
popularity_sum(entry, official_source) ==
    (IF entry.official THEN 20 ELSE 0)
    + (IF entry.featured THEN 10 ELSE 0)
    + (IF Len(entry.categories) < 3 THEN Len(entry.categories) ELSE 3) * 2
    + (IF entry.source = official_source THEN 15
       ELSE IF entry.source = SourceType.DOCKER THEN 5 ELSE 0)
    + (IF entry.container_image THEN 3 ELSE 0)

\* Registry._calculate_popularity_score: SourceType.MCP_OFFICIAL is looked
\* up in every call, before the comparison with the source of the entry; a
\* name that is no member of SourceType raises AttributeError.
calculate_popularity_score(entry) ==
    IF "MCP_OFFICIAL" \in DOMAIN SourceType
    THEN [raised |-> FALSE, score |-> popularity_sum(entry, SourceType["MCP_OFFICIAL"])]
    ELSE [raised |-> TRUE, score |-> 0]

\* A query of the search. fuzzy: for the text of the query, the WRatio of
\* each indexed record of each entry (name, description, each category, each
\* tag, in this order).
SearchQuery(query, sources, categories, tags, official_only, featured_only, requires_api_key, limit, fuzzy) ==
    [query |-> query, sources |-> sources, categories |-> categories, tags |-> tags,
     official_only |-> official_only, featured_only |-> featured_only,
     requires_api_key |-> requires_api_key, limit |-> limit, fuzzy |-> fuzzy]

\* query.query.strip()
Strip(text) == IF text \in {"", " "} THEN "" ELSE text

\* The threshold of a fuzzy match.
FuzzyThreshold == 60

\* The filters of search, applied to the entries in the order of the store.
passes_filters(entry, query) ==
    /\ query.sources # {} => entry.source \in query.sources
    /\ query.categories # {} => Range(entry.categories) \cap query.categories # {}
    /\ query.tags # {} => Range(entry.tags) \cap query.tags # {}
    /\ query.official_only => entry.official
    /\ query.featured_only => entry.featured
    /\ query.requires_api_key # "any" =>
           entry.requires_api_key = (query.requires_api_key = "true")

\* Registry._rebuild_search_index over a store in its order of insertion:
\* one record for the name, the description, each category and each tag.
RECURSIVE search_index_of(_)
search_index_of(store) ==
    IF store = <<>> THEN <<>>
    ELSE LET entry == Head(store)
             fields == 2 + Len(entry.categories) + Len(entry.tags)
         IN [i \in 1..fields |-> [entry |-> entry, field |-> i]]
            \o search_index_of(Tail(store))

\* A sequence with x put behind the elements whose score is not lower.
RECURSIVE insert_desc(_, _)
insert_desc(x, sorted) ==
    IF sorted = <<>> THEN <<x>>
    ELSE IF Head(sorted).score >= x.score
         THEN <<Head(sorted)>> \o insert_desc(x, Tail(sorted))
         ELSE <<x>> \o sorted

\* sort(key=score, reverse=True): descending, equal scores keep their order.
RECURSIVE sort_desc(_)
sort_desc(seq) ==
    IF seq = <<>> THEN <<>>
    ELSE insert_desc(seq[Len(seq)], sort_desc(SubSeq(seq, 1, Len(seq) - 1)))

\* The first n elements of a sequence.
Take(seq, n) == SubSeq(seq, 1, IF Len(seq) < n THEN Len(seq) ELSE n)

\* process.extract(query, search_texts, scorer=fuzz.WRatio, limit=n): the n
\* records of the highest score, in descending order of score.
extract(index, query, n) ==
    Take(sort_desc([i \in 1..Len(index) |->
                       [entry |-> index[i].entry,
                        score |-> query.fuzzy[index[i].entry.id][index[i].field]]]),
         n)

\* The loop of search over the matches: a record under the threshold, of an
\* entry already seen or of an entry that the filters dropped is skipped;
\* the others are scored. scored: <<entry, 10 * combined_score>>.
RECURSIVE score_matches(_, _, _, _)
score_matches(matches, query, seen_ids, scored_results) ==
    IF matches = <<>> THEN [raised |-> FALSE, scored |-> scored_results]
    ELSE LET m == Head(matches)
             popularity_score == calculate_popularity_score(m.entry)
         IN IF \/ m.score < FuzzyThreshold
               \/ m.entry.id \in seen_ids
               \/ ~passes_filters(m.entry, query)
            THEN score_matches(Tail(matches), query, seen_ids, scored_results)
            ELSE IF popularity_score.raised
            THEN [raised |-> TRUE, scored |-> scored_results]
            ELSE score_matches(
                     Tail(matches), query, seen_ids \cup {m.entry.id},
                     Append(scored_results,
                            [entry |-> m.entry,
                             score |-> m.score * 6 + popularity_score.score * 4]))

\* The ids of the entries of a sequence of scored entries.
ids_of(scored) == [i \in 1..Len(scored) |-> scored[i].entry.id]

\* Registry.search over a store in its order of insertion. The result is the
\* ids of the entries returned, or the exception raised.
search(store, query) ==
    LET candidates == SelectSeq(store, LAMBDA e : passes_filters(e, query))
    IN IF Strip(query.query) # ""
       THEN LET matches == extract(search_index_of(store), query, query.limit * 3)
                r == score_matches(matches, query, {}, <<>>)
            IN IF r.raised THEN [raised |-> TRUE, results |-> <<>>]
               ELSE [raised |-> FALSE,
                     results |-> ids_of(Take(sort_desc(r.scored), query.limit))]
       ELSE LET keys == [i \in 1..Len(candidates) |->
                            calculate_popularity_score(candidates[i])]
            IN IF \E i \in 1..Len(keys) : keys[i].raised
               THEN [raised |-> TRUE, results |-> <<>>]
               ELSE [raised |-> FALSE,
                     results |-> ids_of(Take(
                         sort_desc([i \in 1..Len(candidates) |->
                                       [entry |-> candidates[i], score |-> keys[i].score]]),
                         query.limit))]

\* --------------------------------------------------- tasks.py, the scheduler

\* sources_to_refresh
Sources == {"mcpservers", "docker"}

\* Readings of the clock, and calls of force_refresh, in one run of the
\* gateway.
MaxClock == 2
MaxForce == 2

\* The sources mcp_registry_refresh is called for.
ForceSources == {"docker"}

\* The tasks of the periodic loops, of the initial refreshes and of the
\* force_refresh calls.
LoopJob(source) == IF source = "mcpservers" THEN 1 ELSE 2
InitialJob(source) == IF source = "mcpservers" THEN 3 ELSE 4
FirstForceJob == InitialJob("docker") + 1

\* A coroutine that runs _refresh_source, and where it is: "new" (created,
\* it has not run yet), "lock" (waits for the refresh lock of its source), "scrape"
\* (in the refresh body, waits for the scraper), "sleep" (a loop between two
\* iterations), "ended" (a loop that has returned). before: last_refresh of
\* the source when the coroutine was called; failed: a refresh it ran failed.
Job(source, origin, pos, before) ==
    [source |-> source, origin |-> origin, pos |-> pos, before |-> before,
     failed |-> FALSE]

\* The scheduler and the registry's refresh state after construction.
\* waiters: the coroutines that wait for a lock, the first first; forced:
\* the force_refresh calls whose refresh has succeeded.
SchedInit ==
    [running |-> FALSE, started |-> FALSE,
     lock |-> [source \in Sources |-> 0],
     waiters |-> [source \in Sources |-> <<>>],
     status |-> [source \in Sources |-> NoStatus],
     clock |-> 0,
     forced |-> 0,
     jobs |-> EmptyFn,
     nextjob |-> FirstForceJob]

\* A lock that is never seen held.
LockNeverHeld(sc, source) == TRUE

\* asyncio.Lock.locked() of _refresh_locks[source], negated.
LockFree(sc, source) == sc.lock[source] = 0

\* A clock that stands still.
utcnow_frozen(sc) == sc.clock

\* datetime.utcnow(): each reading is later than the one before.
utcnow(sc) == sc.clock + 1

\* _refresh_*: the lock is held; status "refreshing" is written (a new
\* SourceRefreshStatus, without last_refresh); the scraper is awaited.
enter_body(sc, j) ==
    LET source == sc.jobs[j].source
    IN [sc EXCEPT !.lock[source] = j,
                  !.waiters[source] = SelectSeq(@, LAMBDA x : x # j),
                  !.status[source] = SourceStatus("refreshing", 0, 0, ""),
                  !.jobs[j].pos = "scrape"]

\* async with self.registry._refresh_locks[source_type]: taken at once when
\* the lock is free and nobody waits for it, waited for otherwise.
begin_refresh(sc, j) ==
    LET source == sc.jobs[j].source
    IN IF LockFree(sc, source) /\ sc.waiters[source] = <<>>
       THEN enter_body(sc, j)
       ELSE [sc EXCEPT !.jobs[j].pos = "lock", !.waiters[source] = Append(@, j)]

\* Where a periodic loop is after a failure in its iteration.
LoopEndsOnFailure == "ended"

\* Where a periodic loop is after a refresh that failed: the body has caught
\* the exception, the loop goes to its wait.
LoopAfterFailure == "sleep"

\* The coroutine leaves _refresh_source: the lock is released if it held
\* it, it waits for the lock no more; a loop goes to pos, the task of an
\* initial refresh or a force_refresh call is over.
leave_body(sc, j, pos) ==
    LET source == sc.jobs[j].source
        sc1 == [sc EXCEPT !.lock[source] = IF @ = j THEN 0 ELSE @,
                          !.waiters[source] = SelectSeq(@, LAMBDA x : x # j)]
    IN IF sc.jobs[j].origin = "loop"
       THEN [sc1 EXCEPT !.jobs[j].pos = pos]
       ELSE [sc1 EXCEPT !.jobs = Drop(@, j)]

\* The refresh body after the scraper has returned: bulk insert, then the
\* status "ok" with last_refresh and entry_count.
refresh_ok(sc, j, count) ==
    LET source == sc.jobs[j].source
        now == utcnow(sc)
    IN leave_body([sc EXCEPT !.status[source] = SourceStatus("ok", now, count, ""),
                             !.clock = now,
                             !.forced = IF sc.jobs[j].origin = "force" THEN @ + 1 ELSE @],
                  j, "sleep")

\* The refresh body after the scraper has raised: except Exception writes
\* the status "error" with the message.
refresh_failed(sc, j) ==
    LET source == sc.jobs[j].source
    IN leave_body([sc EXCEPT !.status[source] = SourceStatus("error", 0, 0, "scraper raised"),
                             !.jobs[j].failed = TRUE],
                  j, LoopAfterFailure)

\* The sources that _refresh_source has a handler for.
Handled == {"mcpservers", "docker"}

\* _refresh_source as force_refresh sees it. outcome: "ok", "error" (the
\* scraper raised; the body has caught the exception and written the status)
\* or "none" (no handler for the source, a warning is logged). The exception
\* that leaves _refresh_source, "" without one.
refresh_source_raised(source, outcome) == ""

\* RefreshScheduler.force_refresh: True when _refresh_source has returned,
\* False when an Exception has left it.
force_refresh(source, outcome) ==
    IF refresh_source_raised(source, outcome) = "" THEN "True" ELSE "False"

\* CancelledError raised into the coroutine where it waits: it is no
\* Exception, the body's handler does not run; async with releases the lock.
cancelled(sc, j) ==
    IF sc.jobs[j].pos = "ended" THEN sc ELSE leave_body(sc, j, "ended")

RECURSIVE cancel_all(_, _)
\* RefreshScheduler.stop: task.cancel() for the tasks of self._tasks
cancel_all(sc, js) ==
    IF js = {} THEN sc
    ELSE LET j == CHOOSE x \in js : TRUE
         IN cancel_all(cancelled(sc, j), js \ {j})

\* -------------------------------------- the JSON-RPC client of one mount

\* Requests one client sends in its life.
MaxRequests == 3

\* The methods of the requests, and the result the child gives for each.
Methods == {"tools/list", "resources/list"}
ResultOf(method) == IF method = "tools/list" THEN "tools" ELSE "resources"

\* The client after construction: next_id 1, nothing pending. issued: the
\* requests in the order of their sending; stdin: the requests the child
\* has not answered; stdout: the responses the reader has not read;
\* delivered: what the waiters received, in the order of the deliveries.
RpcInit ==
    [next_id |-> 1, pending |-> {}, issued |-> <<>>, stdin |-> {}, stdout |-> <<>>,
     delivered |-> <<>>, open |-> TRUE]

\* A request of the client: its id and its method.
Request(id, method) == [id |-> id, method |-> method]

\* The response of the child to a request: the id of the request, and the
\* result of its method.
Response(request) == [id |-> request.id, result |-> ResultOf(request.method)]

\* A high-level call: the next id is taken, a completion slot is made for
\* it, the request is written to the child.
send_request(rc, method) ==
    [rc EXCEPT !.next_id = @ + 1,
               !.pending = @ \cup {rc.next_id},
               !.issued = Append(@, Request(rc.next_id, method)),
               !.stdin = @ \cup {Request(rc.next_id, method)}]

\* The slot of the request that has waited longest.
oldest_slot(rc, id) ==
    IF rc.pending = {} THEN 0
    ELSE CHOOSE x \in rc.pending : \A y \in rc.pending : x <= y

\* The reader looks up the pending slot of the id of a response: the slot,
\* 0 without one.
slot_for(rc, id) == IF id \in rc.pending THEN id ELSE 0

\* The reader task reads a response and routes it: it completes the slot of
\* its id; a response without a slot (the call timed out) is dropped.
route(rc) ==
    LET msg == Head(rc.stdout)
        slot == slot_for(rc, msg.id)
        rc1 == [rc EXCEPT !.stdout = Tail(@)]
    IN IF slot = 0 THEN rc1
       ELSE [rc1 EXCEPT !.pending = @ \ {slot},
                        !.delivered = Append(@, [waiter |-> slot, id |-> msg.id,
                                                 result |-> msg.result])]

\* What a waiter receives for a slot of the pending map.
SlotOutcome(id, result) == [waiter |-> id, id |-> id, result |-> result]

\* A deadline that returns the timeout error and leaves the slot.
timeout_keeps_slot(rc, id) ==
    [rc EXCEPT !.delivered = Append(@, SlotOutcome(id, "timeout"))]

\* The deadline of a call passes: its slot is removed, its waiter gets a
\* timeout error.
call_timeout(rc, id) ==
    [rc EXCEPT !.pending = @ \ {id},
               !.delivered = Append(@, SlotOutcome(id, "timeout"))]

\* ------------------------------------------------------------- the machine

\* The mount table as loaded from active_mounts.json: empty on a first
\* start, or the records a previous run of the gateway left.
SnapshotContainerMount ==
    [entry_id |-> IdSqlite, prefix |-> PSqlite,
     container_id |-> INTERACTIVE_ \o MCP_REGISTRY_ \o PSqlite, pid |-> 0,
     environment |-> EmptyFn, tools |-> <<<<"list">>>>]

Snapshots == { <<>>, <<SnapshotContainerMount>> }

\* Names the upstream client calls.
ExecNames ==
    { FullToolName(PSqlite, <<"list">>), FullToolName(PFs, <<"read", "_", "query">>),
      <<"list">> }

\* changed: the tools/list_changed notifications the call sent upstream;
\* tool: the remote tool a dispatch was meant for; origin, before, batch:
\* who ran a refresh, last_refresh of its source when it was called, and
\* what its scraper returned; waited: how the wait of a stop for its process
\* ended.
Call(op, id, result, pid) ==
    [op |-> op, id |-> id, result |-> result, pid |-> pid, command |-> "",
     handle |-> <<>>, trace |-> <<>>, name |-> <<>>, changed |-> 0, tool |-> <<>>,
     origin |-> "", before |-> 0, batch |-> <<>>, waited |-> "", returned |-> ""]

Init ==
    /\ entries = CachedEntries
    /\ active_mounts \in Snapshots
    /\ fastmcp_tools = EmptyFn
    /\ dynamic_tools = EmptyFn
    /\ clients = EmptyFn
    /\ running_containers = EmptyFn
    /\ processes = EmptyFn
    /\ children = EmptyFn
    /\ nextpid = 0
    /\ closed = {}
    /\ torn = {}
    /\ tasks = {}
    /\ search_index = DOMAIN CachedEntries
    /\ sched = SchedInit
    /\ rpc_client = RpcInit
    /\ disk = [entries |-> dump_entries(entries), mounts |-> dump_mounts(active_mounts)]
    /\ ret = Call("start", <<>>, "", 0)

\* The upstream client calls mcp_registry_add.
RegistryAdd ==
    \E entry_id \in EntryIds, prefix \in AddPrefixes, o \in Outcomes :
        LET r == registry_add(World, entry_id, prefix, o.pulled, o.started # "oserror",
                              IF o.started = "exited" THEN "other" ELSE o.rpc, o.tools)
        IN /\ r.w.nextpid <= MaxSpawn
           /\ SetWorld(r.w)
           /\ ret' = [Call("add", entry_id, r.result, r.pid)
                        EXCEPT !.changed = Flushed(r.w)]
           /\ UNCHANGED <<tasks, sched, rpc_client>>

\* The upstream client calls mcp_registry_launch_stdio.
RegistryLaunchStdio ==
    \E c \in LaunchCalls, o \in Outcomes :
        LET r == registry_launch_stdio(World, c.command, c.prefix, c.env, o.started,
                                       o.rpc, o.tools)
        IN /\ r.w.nextpid <= MaxSpawn
           /\ SetWorld(r.w)
           /\ ret' = [Call("launch", STDIO_ \o c.prefix, r.result, r.pid)
                        EXCEPT !.command = c.command, !.changed = Flushed(r.w)]
           /\ UNCHANGED <<tasks, sched, rpc_client>>

\* The upstream client calls mcp_registry_remove.
RegistryRemove ==
    \E entry_id \in RemoveIds, exits \in BOOLEAN :
        LET r == registry_remove(World, entry_id, exits)
        IN /\ SetWorld(r.w)
           /\ ret' = [Call("remove", entry_id, r.result, 0)
                        EXCEPT !.handle = r.handle, !.trace = r.trace,
                               !.changed = Flushed(r.w)]
           /\ UNCHANGED <<tasks, sched, rpc_client>>

\* The upstream client calls mcp_registry_config_set.
RegistryConfigSet ==
    \E entry_id \in RemoveIds, environment \in EnvRequests :
        LET r == registry_config_set(World, entry_id, environment)
        IN /\ SetWorld(r.w)
           /\ ret' = Call("config_set", entry_id, r.result, 0)
           /\ UNCHANGED <<tasks, sched, rpc_client>>

Next ==
    \/ RegistryAdd
    \/ RegistryLaunchStdio
    \/ RegistryRemove
    \/ RegistryConfigSet

Spec == Init /\ [][Next]_vars

\* ------------------------------------- the machine, handlers interleaved

\* Handlers are coroutines of one event loop: another handler runs only
\* while one waits. registry_remove waits for the close of the RPC client
\* and for podman; a dispatch may wait for the writer of its client between
\* get_client and the write of the request.

\* Handlers in flight at a time.
MaxInFlight == 2

RECURSIVE remove_until_await(_, _, _, _)
\* registry_remove from its i-th step up to the next wait, or to its end:
\* next is the step to resume at, Len(RemoveSteps) + 1 when it has returned.
remove_until_await(ts, mount, i, exits) ==
    IF i > Len(RemoveSteps) THEN [w |-> ts.w, trace |-> ts.trace, next |-> i]
    ELSE LET step == RemoveSteps[i]
             ts1 == remove_step(ts, mount, step, exits)
         IN IF step \in {"rpc", "child"} /\ ts1.trace # ts.trace
            THEN [w |-> ts1.w, trace |-> ts1.trace, next |-> i + 1]
            ELSE remove_until_await(ts1, mount, i + 1, exits)

RemoveTask(entry_id, mount, r) ==
    [kind |-> "remove", id |-> entry_id, mount |-> mount, next |-> r.next,
     trace |-> r.trace, pid |-> 0, name |-> <<>>, pending |-> r.w.pending]

CallTask(op, tool_name, r) ==
    [kind |-> op, id |-> tool_name, mount |-> <<>>, next |-> 0, trace |-> <<>>,
     pid |-> r.pid, name |-> r.name, pending |-> FALSE]

\* What registry_remove has done when it waits or returns.
RemoveProgress(entry_id, mount, r) ==
    /\ SetWorld(r.w)
    /\ UNCHANGED <<sched, rpc_client>>
    /\ ret' = [Call("remove", entry_id,
                    IF r.next > Len(RemoveSteps) THEN "deactivated" ELSE "waiting", 0)
                  EXCEPT !.handle = mount.container_id, !.trace = r.trace,
                         !.changed = IF r.next > Len(RemoveSteps) THEN Flushed(r.w)
                                     ELSE 0]

\* mcp_registry_remove is called and runs to its first wait.
RemoveBegin ==
    \E entry_id \in RemoveIds, exits \in BOOLEAN :
        LET existing == get_active_mount(World, entry_id)
            r == remove_until_await([w |-> World, trace |-> <<>>], existing[1], 1, exits)
        IN IF existing = None
           THEN /\ ret' = Call("remove", entry_id, "not_active", 0)
                /\ UNCHANGED <<disk, entries, active_mounts, fastmcp_tools, dynamic_tools,
                               clients, running_containers, processes, children,
                               nextpid, closed, torn, tasks, search_index, sched, rpc_client>>
           ELSE /\ Cardinality(tasks) < MaxInFlight
                /\ RemoveProgress(entry_id, existing[1], r)
                /\ tasks' = IF r.next > Len(RemoveSteps) THEN tasks
                            ELSE tasks \cup {RemoveTask(entry_id, existing[1], r)}

\* A waiting registry_remove goes on to its next wait or to its end.
RemoveResume ==
    \E t \in tasks, exits \in BOOLEAN :
        /\ t.kind = "remove"
        /\ LET r == remove_until_await([w |-> [World EXCEPT !.pending = t.pending],
                                        trace |-> t.trace], t.mount, t.next, exits)
           IN /\ RemoveProgress(t.id, t.mount, r)
              /\ tasks' = IF r.next > Len(RemoveSteps) THEN tasks \ {t}
                          ELSE (tasks \ {t}) \cup {RemoveTask(t.id, t.mount, r)}

\* What a dispatch returns at once: an error, or that it waits for the writer
\* of its client.
Dispatched(op, tool_name, r) ==
    [Call(op, tool_name, IF r.pid = 0 THEN r.result ELSE "waiting", r.pid)
        EXCEPT !.name = r.name]

\* mcp_registry_exec is called and finds its client, or returns an error.
RegistryExec ==
    \E tool_name \in ExecNames :
        LET r == registry_exec(World, tool_name)
        IN /\ r.pid # 0 => Cardinality(tasks) < MaxInFlight
           /\ ret' = Dispatched("exec", tool_name, r)
           /\ tasks' = IF r.pid = 0 THEN tasks
                       ELSE tasks \cup {CallTask("exec", tool_name, r)}
           /\ UNCHANGED <<disk, entries, active_mounts, fastmcp_tools, dynamic_tools, clients,
                          running_containers, processes, children, nextpid, closed,
                          torn, search_index, sched, rpc_client>>

\* A dynamic tool of the surface is called and finds its client, or returns
\* an error.
CallDynamicTool ==
    \E name \in DOMAIN fastmcp_tools :
        LET r == tool_executor(World, name)
        IN /\ r.pid # 0 => Cardinality(tasks) < MaxInFlight
           /\ ret' = Dispatched("tool", name, r)
           /\ tasks' = IF r.pid = 0 THEN tasks
                       ELSE tasks \cup {CallTask("tool", name, r)}
           /\ UNCHANGED <<disk, entries, active_mounts, fastmcp_tools, dynamic_tools, clients,
                          running_containers, processes, children, nextpid, closed,
                          torn, search_index, sched, rpc_client>>

\* The dispatch writes its request, or fails on a closed client.
DispatchSend ==
    \E t \in tasks :
        /\ t.kind \in {"exec", "tool"}
        /\ LET r == call_tool(World, t.pid, t.name)
           IN ret' = [Call(t.kind, t.id, r.result, r.pid) EXCEPT !.name = r.name]
        /\ tasks' = tasks \ {t}
        /\ UNCHANGED <<disk, entries, active_mounts, fastmcp_tools, dynamic_tools, clients,
                       running_containers, processes, children, nextpid, closed, torn,
                       search_index, sched, rpc_client>>

\* The activations that precede a deactivation: those that succeed.
Answered == { o \in Outcomes : o.pulled /\ o.started = "started" /\ o.rpc = "ok" }

\* mcp_registry_add is called and succeeds.
Activate ==
    \E prefix \in AddPrefixes, o \in Answered :
        LET r == registry_add(World, IdSqlite, prefix, o.pulled, TRUE, o.rpc, o.tools)
        IN /\ r.w.nextpid <= MaxSpawn
           /\ r.result = "activated"
           /\ SetWorld(r.w)
           /\ ret' = [Call("add", IdSqlite, r.result, r.pid)
                        EXCEPT !.changed = Flushed(r.w)]
           /\ UNCHANGED <<tasks, sched, rpc_client>>

\* mcp_registry_launch_stdio is called and succeeds.
ActivateStdio ==
    \E prefix \in StdioPrefixes, o \in Answered :
        LET r == registry_launch_stdio(World, "npx", prefix, EmptyFn, o.started, o.rpc,
                                       o.tools)
        IN /\ r.w.nextpid <= MaxSpawn
           /\ r.result = "activated"
           /\ SetWorld(r.w)
           /\ ret' = [Call("launch", STDIO_ \o prefix, r.result, r.pid)
                         EXCEPT !.command = "npx", !.changed = Flushed(r.w)]
           /\ UNCHANGED <<tasks, sched, rpc_client>>

NextAsync ==
    \/ Activate
    \/ ActivateStdio
    \/ RemoveBegin
    \/ RemoveResume
    \/ RegistryExec
    \/ CallDynamicTool
    \/ DispatchSend

SpecAsync == Init /\ [][NextAsync]_vars

\* ----------------------------- the machine, dispatch to the mounted tools

\* Prefixes of mounts, with and without an underscore.
PMy == <<"my">>
PMyDb == <<"my", "_", "db">>
ExecPrefixes == {PMy, PMyDb}

ToolDbList == [kind |-> "str", name |-> <<"db", "_", "list">>]

\* tools/list answers of the children that are dispatched to.
ExecToolAnswers == { <<ToolList, ToolReadQuery>>, <<ToolDbList>> }

\* mcp_registry_launch_stdio is called with a prefix of ExecPrefixes and
\* succeeds.
LaunchPrefixed ==
    \E prefix \in ExecPrefixes, tools \in ExecToolAnswers :
        LET r == registry_launch_stdio(World, "npx", prefix, EmptyFn, "started", "ok",
                                       tools)
        IN /\ r.w.nextpid <= MaxSpawn
           /\ r.result = "activated"
           /\ SetWorld(r.w)
           /\ ret' = [Call("launch", STDIO_ \o prefix, r.result, r.pid)
                         EXCEPT !.command = "npx", !.changed = Flushed(r.w)]
           /\ UNCHANGED <<tasks, sched, rpc_client>>

\* mcp_registry_remove is called for a mount of the table.
Unmount ==
    \E i \in 1..Len(active_mounts), exits \in BOOLEAN :
        LET entry_id == active_mounts[i].entry_id
            r == registry_remove(World, entry_id, exits)
        IN /\ SetWorld(r.w)
           /\ ret' = [Call("remove", entry_id, r.result, 0)
                        EXCEPT !.handle = r.handle, !.trace = r.trace,
                               !.changed = Flushed(r.w)]
           /\ UNCHANGED <<tasks, sched, rpc_client>>

\* mcp_registry_exec is called with the name mcp_<prefix>_<tool> of a tool
\* discovered on a mount that has its RPC client, and runs to its return.
ExecMountedTool ==
    \E i \in 1..Len(active_mounts) :
        \E k \in 1..Len(active_mounts[i].tools) :
            LET mount == active_mounts[i]
                tool_name == FullToolName(mount.prefix, mount.tools[k])
                r == registry_exec(World, tool_name)
            IN /\ mount.container_id \in DOMAIN clients
               /\ ret' = [Call("exec", tool_name, r.result, r.pid)
                            EXCEPT !.name = r.name, !.handle = mount.container_id,
                                   !.tool = mount.tools[k]]
               /\ UNCHANGED <<disk, entries, active_mounts, fastmcp_tools, dynamic_tools,
                              clients, running_containers, processes, children,
                              nextpid, closed, torn, tasks, search_index, sched, rpc_client>>

NextExec ==
    \/ Activate
    \/ LaunchPrefixed
    \/ Unmount
    \/ ExecMountedTool

SpecExec == Init /\ [][NextExec]_vars

\* ------------------------------------------- the machine, the refreshes

\* What the scheduler does not touch.
mountVars ==
    <<active_mounts, fastmcp_tools, dynamic_tools, clients, running_containers,
      processes, children, nextpid, closed, torn, tasks, disk>>

\* A step of the refresh of a source, for ret.
RefreshCall(op, source, result, job) ==
    [Call(op, <<source>>, result, 0)
        EXCEPT !.origin = job.origin, !.before = job.before]

\* _periodic_refresh_loop from the top of its while to its next await.
loop_iteration(sc, j) ==
    IF ~sc.running THEN [sc EXCEPT !.jobs[j].pos = "ended"]
    ELSE IF should_refresh_source(sc, sc.jobs[j].source) THEN begin_refresh(sc, j)
    ELSE [sc EXCEPT !.jobs[j].pos = "sleep"]

\* A task runs for the first time, up to its first await.
first_run(sc, j) ==
    IF sc.jobs[j].origin = "loop" THEN loop_iteration(sc, j) ELSE begin_refresh(sc, j)

RECURSIVE run_created(_, _)
\* The tasks that asyncio.create_task made run in the order of their
\* creation, each up to its first await.
run_created(sc, js) ==
    IF js = <<>> THEN sc ELSE run_created(first_run(sc, Head(js)), Tail(js))

\* RefreshScheduler.start, at the first call of a handler: the loops are
\* created, then an initial refresh for each source that needs one; start
\* does not wait, and the tasks run when the handler first does.
SchedulerStart ==
    /\ ~sched.started
    /\ sched' =
          run_created(
              [sched EXCEPT
                  !.running = TRUE,
                  !.started = TRUE,
                  !.jobs = [j \in {LoopJob(source) : source \in Sources}
                                  \cup {InitialJob(source) : source \in
                                           {x \in Sources : should_refresh_source(sched, x)}}
                              |-> IF j \in {LoopJob(source) : source \in Sources}
                                  THEN Job(CHOOSE x \in Sources : LoopJob(x) = j, "loop",
                                           "new", 0)
                                  ELSE Job(CHOOSE x \in Sources : InitialJob(x) = j,
                                           "initial", "new", 0)]],
              <<LoopJob("mcpservers"), LoopJob("docker"), InitialJob("mcpservers"),
                InitialJob("docker")>>)
    /\ ret' = Call("start_scheduler", <<>>, "", 0)
    /\ UNCHANGED <<entries, search_index>>
    /\ UNCHANGED <<mountVars, rpc_client>>

\* _periodic_refresh_loop: the sleep of the loop ends, and it goes through
\* one iteration up to its next await.
LoopWakes ==
    \E source \in Sources :
        LET j == LoopJob(source)
        IN /\ j \in DOMAIN sched.jobs
           /\ sched.jobs[j].pos = "sleep"
           /\ sched' = loop_iteration(sched, j)
           /\ ret' = Call("wake", <<source>>, "", 0)
           /\ UNCHANGED <<entries, search_index>>
           /\ UNCHANGED <<mountVars, rpc_client>>

\* mcp_registry_refresh calls force_refresh(source): _refresh_source up to
\* its await.
ForceRefresh ==
    \E source \in ForceSources :
        LET j == sched.nextjob
            job == Job(source, "force", "new", sched.status[source].last_refresh)
        IN /\ sched.started
           /\ j < FirstForceJob + MaxForce
           /\ sched' = begin_refresh([sched EXCEPT !.jobs = Put(@, j, job),
                                                   !.nextjob = j + 1], j)
           /\ ret' = Call("force", <<source>>, "", 0)
           /\ UNCHANGED <<entries, search_index>>
           /\ UNCHANGED <<mountVars, rpc_client>>

\* The coroutine that waited longest for the refresh lock of its source
\* gets it.
LockAcquired ==
    \E j \in DOMAIN sched.jobs :
        /\ sched.jobs[j].pos = "lock"
        /\ sched.waiters[sched.jobs[j].source][1] = j
        /\ LockFree(sched, sched.jobs[j].source)
        /\ sched' = enter_body(sched, j)
        /\ ret' = Call("acquire", <<sched.jobs[j].source>>, "", 0)
        /\ UNCHANGED <<entries, search_index>>
        /\ UNCHANGED <<mountVars, rpc_client>>

\* The scraper returns its entries: the body runs to its end.
ScraperReturns ==
    \E j \in DOMAIN sched.jobs :
        \E batch \in ScrapeOutputs(sched.jobs[j].source) :
            LET r == bulk_add_entries(World, batch)
            IN /\ sched.jobs[j].pos = "scrape"
               /\ sched.clock < MaxClock
               /\ SetWorld(r.w)
               /\ sched' = refresh_ok(sched, j, r.count)
               /\ ret' = [RefreshCall("refresh_end", sched.jobs[j].source, "ok",
                                      sched.jobs[j])
                            EXCEPT !.batch = batch,
                                   !.returned =
                                       IF sched.jobs[j].origin = "force"
                                       THEN force_refresh(sched.jobs[j].source, "ok")
                                       ELSE ""]
               /\ UNCHANGED <<tasks, rpc_client>>

\* The scraper raises: the body records the failure and runs to its end.
ScraperRaises ==
    \E j \in DOMAIN sched.jobs :
        /\ sched.jobs[j].pos = "scrape"
        /\ sched' = refresh_failed(sched, j)
        /\ ret' = [RefreshCall("refresh_end", sched.jobs[j].source, "error",
                               sched.jobs[j])
                     EXCEPT !.returned =
                                IF sched.jobs[j].origin = "force"
                                THEN force_refresh(sched.jobs[j].source, "error")
                                ELSE ""]
        /\ UNCHANGED <<entries, search_index>>
        /\ UNCHANGED <<mountVars, rpc_client>>

\* RefreshScheduler.stop, at the shutdown: the loops are cancelled where
\* they wait.
SchedulerStop ==
    /\ sched.running
    /\ sched' = [cancel_all(sched, {LoopJob(source) : source \in Sources})
                    EXCEPT !.running = FALSE]
    /\ ret' = Call("stop_scheduler", <<>>, "cancelled", 0)
    /\ UNCHANGED <<entries, search_index>>
    /\ UNCHANGED <<mountVars, rpc_client>>

\* The upstream client cancels its mcp_registry_refresh request: the
\* handler is cancelled where force_refresh waits.
RequestCancelled ==
    \E j \in DOMAIN sched.jobs :
        /\ sched.jobs[j].origin = "force"
        /\ sched' = cancelled(sched, j)
        /\ ret' = RefreshCall("cancel", sched.jobs[j].source, "cancelled",
                              sched.jobs[j])
        /\ UNCHANGED <<entries, search_index>>
        /\ UNCHANGED <<mountVars, rpc_client>>

\* force_refresh is called for a source without a refresh handler.
ForceRefreshUnhandled ==
    \E source \in Range(SourceType) \ Handled :
        /\ sched.started
        /\ ret' = [Call("force_end", <<source>>, "none", 0)
                     EXCEPT !.origin = "force",
                            !.returned = force_refresh(source, "none")]
        /\ UNCHANGED <<entries, search_index, sched>>
        /\ UNCHANGED <<mountVars, rpc_client>>

NextRefresh ==
    \/ SchedulerStart
    \/ LoopWakes
    \/ ForceRefresh
    \/ LockAcquired
    \/ ScraperReturns
    \/ ScraperRaises
    \/ SchedulerStop
    \/ RequestCancelled

SpecRefresh == Init /\ [][NextRefresh]_vars

NextForce ==
    \/ NextRefresh
    \/ ForceRefreshUnhandled

SpecForce == Init /\ [][NextForce]_vars

\* The outcomes that are not a response of the child.
Failures == {"timeout", "cancelled", "connection closed"}

\* A call is cancelled: its slot is removed.
call_cancel(rc, id) ==
    [rc EXCEPT !.pending = @ \ {id},
               !.delivered = Append(@, SlotOutcome(id, "cancelled"))]

\* The slots of a set fail with "connection closed", the oldest first.
RECURSIVE fail_slots(_, _)
fail_slots(log, slots) ==
    IF slots = {} THEN log
    ELSE LET id == CHOOSE x \in slots : \A y \in slots : x <= y
         IN fail_slots(Append(log, SlotOutcome(id, "connection closed")), slots \ {id})

\* A close that cancels the reader and leaves the slots as they are.
close_reader_only(rc) == [rc EXCEPT !.open = FALSE]

\* The client is closed, or the reader finds the end of the child's stdout:
\* the reader ends and all pending slots fail with "connection closed".
fail_all(rc) ==
    [rc EXCEPT !.open = FALSE,
               !.pending = {},
               !.delivered = fail_slots(@, rc.pending)]

\* ----------------------------------------- the machine, the shutdown

\* shutdown_registry has begun. ret.trace: the steps it has taken.
ShuttingDown == ret.op = "shutdown"

ShutdownSteps == <<"scheduler", "clients", "podman", "stdio">>

\* The step shutdown_registry takes next, "" when it has returned.
NextStep ==
    IF ~ShuttingDown THEN ShutdownSteps[1]
    ELSE IF Len(ret.trace) < Len(ShutdownSteps) THEN ShutdownSteps[Len(ret.trace) + 1]
    ELSE ""

Stepped(step) == [Call("shutdown", <<>>, "", 0) EXCEPT !.trace = Append(ret.trace, step)]

\* The gateway serves: the upstream client activates mounts, the lifespan
\* has started the scheduler.
ServeAdd == ~ShuttingDown /\ RegistryAdd
ServeLaunchStdio == ~ShuttingDown /\ RegistryLaunchStdio
ServeSchedulerStart == ~ShuttingDown /\ SchedulerStart

\* shutdown_registry: await refresh_scheduler.stop()
ShutdownStopsScheduler ==
    /\ ~ShuttingDown
    /\ sched' = IF sched.running
                THEN [cancel_all(sched, {LoopJob(source) : source \in Sources})
                         EXCEPT !.running = FALSE]
                ELSE sched
    /\ ret' = [Call("shutdown", <<>>, "", 0) EXCEPT !.trace = <<"scheduler">>]
    /\ UNCHANGED <<entries, search_index, mountVars, rpc_client>>

\* shutdown_registry: await mcp_client_manager.close_all()
ShutdownClosesClients ==
    /\ ShuttingDown /\ NextStep = "clients"
    /\ \E exits \in BOOLEAN : SetWorld(close_all(World, exits))
    /\ ret' = Stepped("clients")
    /\ UNCHANGED <<tasks, sched, rpc_client>>

\* shutdown_registry: await podman_runner.cleanup_all()
ShutdownCleansPodman ==
    /\ ShuttingDown /\ NextStep = "podman"
    /\ SetWorld(podman_cleanup_all(World).w)
    /\ ret' = Stepped("podman")
    /\ UNCHANGED <<tasks, sched, rpc_client>>

\* shutdown_registry: await stdio_runner.cleanup_all()
ShutdownCleansStdio ==
    /\ ShuttingDown /\ NextStep = "stdio"
    /\ SetWorld(stdio_cleanup_all(World))
    /\ ret' = Stepped("stdio")
    /\ UNCHANGED <<tasks, sched, rpc_client>>

NextShutdown ==
    \/ ServeAdd
    \/ ServeLaunchStdio
    \/ ServeSchedulerStart
    \/ ShutdownStopsScheduler
    \/ ShutdownClosesClients
    \/ ShutdownCleansPodman
    \/ ShutdownCleansStdio

SpecShutdown == Init /\ [][NextShutdown]_vars

\* ------------------------------- the machine, a generated function

\* A generated function is called with some of its parameters. ret.batch:
\* the schema, the arguments of the caller, the payload of the executor.
\* The body has no test of the arguments: the executor is awaited in every
\* call, and ret.result says so.
InvokeGeneratedFunction ==
    \E schema \in Schemas, names \in SUBSET ParamNames :
        LET kwargs == [name \in names |-> Supplied[name]]
        IN /\ names \subseteq {prop.name : prop \in schema.properties}
           /\ ret' = [Call("dynamic_tool", <<>>, "dispatched", 0)
                        EXCEPT !.batch = <<schema, kwargs, dynamic_tool(schema, kwargs)>>]
           /\ UNCHANGED <<entries, search_index, mountVars, sched, rpc_client>>

NextGenerated ==
    \/ InvokeGeneratedFunction

SpecGenerated == Init /\ [][NextGenerated]_vars

\* ------------------------------ the machine, activations interleaved

\* A handler of an activation that waits: registry_add for the pull of its
\* image, registry_launch_stdio inside spawn_server for its process.
ActivationTask(kind, call, entry_id, prefix) ==
    [kind |-> kind, call |-> call, id |-> entry_id, prefix |-> prefix]

\* The calls that can wait at a time.
ActivationCalls == {1, 2}

\* A number for a new call.
FreeCall == CHOOSE c \in ActivationCalls : \A t \in tasks : t.call # c

\* mcp_registry_add is called: it returns from its checks, or waits for the
\* pull of the image.
AddBegin ==
    \E prefix \in AddPrefixes :
        /\ Cardinality(tasks) < Cardinality(ActivationCalls)
        /\ LET checked == add_checks(World, IdSqlite)
           IN /\ ret' = Call("add", IdSqlite,
                              IF checked = "" THEN "waiting" ELSE checked, 0)
              /\ tasks' = IF checked # "" THEN tasks
                          ELSE tasks \cup {ActivationTask("add", FreeCall, IdSqlite, prefix)}
        /\ UNCHANGED <<disk, entries, active_mounts, fastmcp_tools, dynamic_tools, clients,
                       running_containers, processes, children, nextpid, closed,
                       torn, search_index, sched, rpc_client>>

\* A registry_add that waited goes on to its end.
AddResume ==
    \E t \in tasks, o \in Outcomes :
        /\ t.kind = "add"
        /\ LET r == add_from_pull(World, t.id, t.prefix, o.pulled, o.started # "oserror",
                                  IF o.started = "exited" THEN "other" ELSE o.rpc, o.tools)
           IN /\ r.w.nextpid <= MaxSpawn
              /\ SetWorld(r.w)
              /\ ret' = [Call("add", t.id, r.result, r.pid) EXCEPT !.changed = Flushed(r.w)]
        /\ tasks' = tasks \ {t}
        /\ UNCHANGED <<sched, rpc_client>>

\* mcp_registry_launch_stdio is called: it returns from its checks or from
\* those of spawn_server, or waits in spawn_server for its process.
LaunchBegin ==
    \E prefix \in StdioPrefixes :
        /\ Cardinality(tasks) < Cardinality(ActivationCalls)
        /\ LET server_id == STDIO_ \o prefix
               checked == launch_checks(World, "npx", prefix)
               raised == spawn_checks(World, server_id, "npx")
               r == launch_from_spawn(prefix, EmptyFn,
                                      [w |-> World, raised |-> raised, pid |-> 0],
                                      "ok", <<>>)
           IN /\ ret' = [Call("launch", server_id,
                               IF checked # "" THEN checked
                               ELSE IF raised # "" THEN r.result ELSE "waiting", 0)
                            EXCEPT !.command = "npx"]
              /\ tasks' = IF checked # "" \/ raised # "" THEN tasks
                          ELSE tasks \cup {ActivationTask("launch", FreeCall, server_id,
                                                          prefix)}
        /\ UNCHANGED <<disk, entries, active_mounts, fastmcp_tools, dynamic_tools, clients,
                       running_containers, processes, children, nextpid, closed,
                       torn, search_index, sched, rpc_client>>

\* A registry_launch_stdio that waited goes on to its end.
LaunchResume ==
    \E t \in tasks, o \in Outcomes :
        /\ t.kind = "launch"
        /\ LET r == launch_from_spawn(t.prefix, EmptyFn,
                                      spawn_process(World, t.id, o.started),
                                      o.rpc, o.tools)
           IN /\ r.w.nextpid <= MaxSpawn
              /\ SetWorld(r.w)
              /\ ret' = [Call("launch", t.id, r.result, r.pid)
                            EXCEPT !.command = "npx", !.changed = Flushed(r.w)]
        /\ tasks' = tasks \ {t}
        /\ UNCHANGED <<sched, rpc_client>>

NextActivations ==
    \/ AddBegin
    \/ AddResume
    \/ LaunchBegin
    \/ LaunchResume

SpecActivations == Init /\ [][NextActivations]_vars

\* ----------------------------------------- the machine, the search

\* The entries of the fixture of the tests of the search, and one more with
\* the signals of the third.
EPostgres ==
    CatalogEntry("docker/postgres", SourceType.DOCKER, TRUE, TRUE, <<"database">>,
                 <<"sql">>, TRUE, FALSE)
ESlack ==
    CatalogEntry("mcpservers/slack", SourceType.MCPSERVERS, FALSE, TRUE,
                 <<"communication">>, <<>>, FALSE, TRUE)
EFilesystem ==
    CatalogEntry("mcpservers/filesystem", SourceType.MCPSERVERS, FALSE, FALSE,
                 <<"files">>, <<>>, FALSE, FALSE)
ENotes ==
    CatalogEntry("mcpservers/notes", SourceType.MCPSERVERS, FALSE, FALSE,
                 <<"files">>, <<>>, FALSE, FALSE)

CatalogPool == {EPostgres, ESlack, EFilesystem, ENotes}

\* The stores: none or three entries of the pool, in any order of insertion.
CatalogStores ==
    {<<>>}
    \cup {st \in {<<a, b, c>> : a \in CatalogPool, b \in CatalogPool, c \in CatalogPool} :
              st[1] # st[2] /\ st[1] # st[3] /\ st[2] # st[3]}

\* The WRatio of the indexed records of each entry, for the texts searched.
FuzzyOf(text) ==
    IF text = "server"
    THEN [x \in {"docker/postgres"} |-> <<90, 70, 30, 30>>]
         @@ [x \in {"mcpservers/slack"} |-> <<90, 60, 30>>]
         @@ [x \in {"mcpservers/filesystem"} |-> <<90, 59, 30>>]
         @@ [x \in {"mcpservers/notes"} |-> <<85, 40, 30>>]
    ELSE IF text = "sql"
    THEN [x \in {"docker/postgres"} |-> <<95, 90, 85, 100>>]
         @@ [x \in {"mcpservers/slack"} |-> <<45, 30, 20>>]
         @@ [x \in {"mcpservers/filesystem"} |-> <<20, 30, 20>>]
         @@ [x \in {"mcpservers/notes"} |-> <<70, 30, 30>>]
    ELSE [x \in {e.id : e \in CatalogPool} |-> <<0, 0, 0, 0>>]

SearchTexts == {"", " ", "server", "sql"}

SearchLimits == {1, 2}

SearchQueries ==
    { SearchQuery(text, sources, {}, {}, official_only, FALSE, "any", limit,
                  FuzzyOf(text)) :
        text \in SearchTexts,
        sources \in {{}, {SourceType.MCPSERVERS}},
        official_only \in BOOLEAN,
        limit \in SearchLimits }
    \cup { SearchQuery("", {}, {"files", "database"}, {}, FALSE, FALSE, "any", 2,
                        FuzzyOf("")),
            SearchQuery("", {}, {}, {"sql"}, FALSE, FALSE, "any", 2, FuzzyOf("")),
            SearchQuery("server", {}, {}, {}, FALSE, TRUE, "any", 2, FuzzyOf("server")),
            SearchQuery("server", {}, {}, {}, FALSE, FALSE, "false", 2, FuzzyOf("server")) }

\* Registry.search is called. ret.batch: the store, the query, the outcome.
Search ==
    \E store \in CatalogStores, query \in SearchQueries :
        /\ ret' = [Call("search", <<>>, "", 0)
                     EXCEPT !.batch = <<store, query, search(store, query)>>]
        /\ UNCHANGED <<entries, search_index, mountVars, sched, rpc_client>>

\* The entries that differ in their signals.
SignalEntries ==
    { CatalogEntry("e", source, official, featured, categories, <<>>, container_image, FALSE) :
        source \in Range(SourceType),
        official \in BOOLEAN,
        featured \in BOOLEAN,
        categories \in {<<"files">>},
        container_image \in BOOLEAN }

\* Registry._calculate_popularity_score is called for two entries that
\* differ in one field at most.
\* ret.batch: the two entries and the two outcomes.
CalculatePopularityScore ==
    \E a \in SignalEntries, b \in SignalEntries :
        /\ Cardinality({f \in DOMAIN a : a[f] # b[f]}) <= 1
        /\ ret' = [Call("popularity", <<>>, "", 0)
                     EXCEPT !.batch = <<a, b, calculate_popularity_score(a),
                                        calculate_popularity_score(b)>>]
        /\ UNCHANGED <<entries, search_index, mountVars, sched, rpc_client>>

NextSearch ==
    \/ Search
    \/ CalculatePopularityScore

SpecSearch == Init /\ [][NextSearch]_vars

\* ----------------------------------------- the machine, the store

\* RegistryEntry(id=..., ...): the id is validated and put in lower case.
RegistryEntry(id, entry) == Scraped(validate_id(id), entry)

\* The entries the callers of the store make.
EntryInputs ==
    { RegistryEntry(<<"Docker", "/", "SQLITE">>, EntryUnknown),
      RegistryEntry(IdTime, EntryPodman),
      RegistryEntry(IdTime, EntryUnknown) }

\* ActiveMount(...) as the callers of the store make them: of a container,
\* of a stdio child with its pid, with and without environment.
ActiveMount(entry_id, prefix, container_id, pid, environment) ==
    [entry_id |-> entry_id, prefix |-> prefix, container_id |-> container_id,
     pid |-> pid, environment |-> environment, tools |-> <<<<"list">>>>]

MountInputs ==
    { ActiveMount(IdSqlite, PFs, INTERACTIVE_ \o MCP_REGISTRY_ \o PFs, 0, EmptyFn),
      ActiveMount(IdTime, <<"time">>, None, 1, KApiKey :> "k") }

StoreIds == {IdSqlite, IdTime, IdNotes}

\* Registry.add_entry is called.
AddEntry ==
    \E scraped \in EntryInputs :
        /\ SetWorld(add_entry(World, scraped))
        /\ ret' = Call("add_entry", scraped.id, "", 0)
        /\ UNCHANGED <<tasks, sched, rpc_client>>

\* Registry.bulk_add_entries is called.
BulkAddEntries ==
    \E source \in Sources : \E batch \in ScrapeOutputs(source) :
        /\ SetWorld(bulk_add_entries(World, batch).w)
        /\ ret' = [Call("bulk_add_entries", <<>>, "", 0) EXCEPT !.batch = batch]
        /\ UNCHANGED <<tasks, sched, rpc_client>>

\* Registry.add_active_mount is called.
AddActiveMount ==
    \E mount \in MountInputs :
        /\ SetWorld(add_active_mount(World, mount))
        /\ ret' = Call("add_active_mount", mount.entry_id, "", mount.pid)
        /\ UNCHANGED <<tasks, sched, rpc_client>>

\* Registry.remove_active_mount is called.
RemoveActiveMount ==
    \E entry_id \in StoreIds :
        /\ SetWorld(remove_active_mount(World, entry_id))
        /\ ret' = Call("remove_active_mount", entry_id,
                       IF get_active_mount(World, entry_id) = None THEN "None"
                       ELSE "mount", 0)
        /\ UNCHANGED <<tasks, sched, rpc_client>>

\* Registry.update_mount_environment is called.
UpdateMountEnvironment ==
    \E entry_id \in StoreIds, environment \in EnvRequests :
        /\ SetWorld(update_mount_environment(World, entry_id, environment))
        /\ ret' = [Call("update_mount_environment", entry_id,
                        IF get_active_mount(World, entry_id) = None THEN "None"
                        ELSE "mount", 0)
                     EXCEPT !.batch = environment]
        /\ UNCHANGED <<tasks, sched, rpc_client>>

NextStore ==
    \/ AddEntry
    \/ BulkAddEntries
    \/ AddActiveMount
    \/ RemoveActiveMount
    \/ UpdateMountEnvironment

SpecStore == Init /\ [][NextStore]_vars

\* ------------------------------------ the machine, after a restart

\* The upstream client calls mcp_registry_active. ret.batch: the entry ids
\* of the mounts it reports.
RegistryActive ==
    LET mounts == list_active_mounts(World)
    IN /\ ret' = [Call("active", <<>>, IF mounts = <<>> THEN "none" ELSE "listed", 0)
                    EXCEPT !.batch = [i \in 1..Len(mounts) |-> mounts[i].entry_id]]
       /\ UNCHANGED <<entries, search_index, mountVars, sched, rpc_client>>

NextRestart ==
    \/ RegistryActive
    \/ RegistryAdd
    \/ RegistryRemove

SpecRestart == Init /\ [][NextRestart]_vars

\* ----------------------------------- the machine, the configuration

\* The upstream client calls mcp_registry_config_set. ret.batch: the
\* environment of the request.
ConfigSet ==
    \E entry_id \in RemoveIds, environment \in ConfigRequests :
        LET r == registry_config_set(World, entry_id, environment)
        IN /\ SetWorld(r.w)
           /\ ret' = [Call("config_set", entry_id, r.result, 0)
                        EXCEPT !.batch = environment]
           /\ UNCHANGED <<tasks, sched, rpc_client>>

NextConfig ==
    \/ RegistryAdd
    \/ ConfigSet

SpecConfig == Init /\ [][NextConfig]_vars

\* --------------------------------------- the machine, the supervisors

\* The ids and commands the callers of StdioServerRunner pass, and the
\* names of the containers.
ServerIds == {STDIO_ \o p : p \in StdioPrefixes}
Commands == {"npx", "nonexistent"}
ContainerNames == {MCP_REGISTRY_ \o PSqlite}

\* StdioServerRunner.spawn_server is called.
SpawnServer ==
    \E server_id \in ServerIds, command \in Commands, outcome \in SpawnOutcomes :
        LET r == spawn_server(World, server_id, command, outcome)
        IN /\ r.w.nextpid <= MaxSpawn
           /\ SetWorld(r.w)
           /\ ret' = [Call("spawn_server", server_id, r.raised, r.pid)
                        EXCEPT !.command = command]
           /\ UNCHANGED <<tasks, sched, rpc_client>>

\* StdioServerRunner.stop_server is called. ret.pid: the process the id was
\* tracked with.
StopServer ==
    \E server_id \in ServerIds, obeys \in BOOLEAN :
        LET r == stop_server(World, server_id)
        IN /\ SetWorld(r.w)
           /\ ret' = [Call("stop_server", server_id, IF r.ok THEN "True" ELSE "False",
                            IF server_id \in DOMAIN processes THEN processes[server_id]
                            ELSE 0)
                        EXCEPT !.trace = stop_signals(World, server_id, obeys),
                               !.waited = IF obeys THEN "exited" ELSE "timeout"]
           /\ UNCHANGED <<tasks, sched, rpc_client>>

\* A child ends by itself.
ChildExits ==
    \E p \in Alive(World) :
        /\ SetWorld(Reap(World, p))
        /\ ret' = Call("child_exits", <<>>, "", p)
        /\ UNCHANGED <<tasks, sched, rpc_client>>

\* StdioServerRunner.cleanup_all is called.
StdioCleanupAll ==
    /\ SetWorld(stdio_cleanup_all(World))
    /\ ret' = Call("stdio_cleanup_all", <<>>, "", 0)
    /\ UNCHANGED <<tasks, sched, rpc_client>>

\* PodmanRunner.run_interactive_container is called.
RunInteractiveContainer ==
    \E name \in ContainerNames, started \in BOOLEAN :
        LET r == run_interactive_container(World, name, IdSqlite, started)
        IN /\ r.w.nextpid <= MaxSpawn
           /\ SetWorld(r.w)
           /\ ret' = Call("run_interactive_container", r.container_id, "", r.pid)
           /\ UNCHANGED <<tasks, sched, rpc_client>>

\* PodmanRunner.cleanup_all is called. ret.changed: the count it returns.
PodmanCleanupAll ==
    LET r == podman_cleanup_all(World)
    IN /\ SetWorld(r.w)
       /\ ret' = [Call("podman_cleanup_all", <<>>, "", 0) EXCEPT !.changed = r.cleaned]
       /\ UNCHANGED <<tasks, sched, rpc_client>>

NextSupervisor ==
    \/ SpawnServer
    \/ StopServer
    \/ ChildExits
    \/ StdioCleanupAll
    \/ RunInteractiveContainer
    \/ PodmanCleanupAll

SpecSupervisor == Init /\ [][NextSupervisor]_vars

\* ------------------------------------ the machine, spawns interleaved

\* StdioServerRunner.spawn_server is called: it raises from its checks, or
\* waits in create_subprocess_exec and in the settle for its process.
SpawnBegin ==
    \E server_id \in ServerIds, command \in Commands :
        /\ Cardinality(tasks) < Cardinality(ActivationCalls)
        /\ LET raised == spawn_checks(World, server_id, command)
           IN /\ ret' = [Call("spawn_server", server_id,
                               IF raised # "" THEN raised ELSE "waiting", 0)
                            EXCEPT !.command = command]
              /\ tasks' = IF raised # "" THEN tasks
                          ELSE tasks \cup {ActivationTask("spawn", FreeCall, server_id,
                                                          <<>>)}
        /\ UNCHANGED <<disk, entries, active_mounts, fastmcp_tools, dynamic_tools, clients,
                       running_containers, processes, children, nextpid, closed,
                       torn, search_index, sched, rpc_client>>

\* A spawn_server that waited goes on to its end.
SpawnResume ==
    \E t \in tasks, outcome \in SpawnOutcomes :
        /\ t.kind = "spawn"
        /\ LET r == spawn_process(World, t.id, outcome)
           IN /\ r.w.nextpid <= MaxSpawn
              /\ SetWorld(r.w)
              /\ ret' = [Call("spawn_server", t.id, r.raised, r.pid)
                            EXCEPT !.command = "npx"]
        /\ tasks' = tasks \ {t}
        /\ UNCHANGED <<sched, rpc_client>>

NextSpawns ==
    \/ SpawnBegin
    \/ SpawnResume
    \/ StopServer
    \/ ChildExits
    \/ StdioCleanupAll

SpecSpawns == Init /\ [][NextSpawns]_vars

\* ------------------------------- the machine, one JSON-RPC client

\* What the client of a mount does not touch.
registryVars == <<entries, search_index, sched, ret>>

\* A caller sends a request and waits for its response.
RpcRequest ==
    \E method \in Methods :
        /\ rpc_client.open
        /\ rpc_client.next_id <= MaxRequests
        /\ rpc_client' = send_request(rpc_client, method)
        /\ UNCHANGED <<mountVars, registryVars>>

\* The child answers one of the requests it has, in the order it likes.
ChildAnswers ==
    \E request \in rpc_client.stdin :
        /\ rpc_client' = [rpc_client EXCEPT !.stdin = @ \ {request},
                                            !.stdout = Append(@, Response(request))]
        /\ UNCHANGED <<mountVars, registryVars>>

\* The reader task reads the next line of the child and routes it.
ReaderRoutes ==
    /\ rpc_client.open
    /\ rpc_client.stdout # <<>>
    /\ rpc_client' = route(rpc_client)
    /\ UNCHANGED <<mountVars, registryVars>>

\* The deadline of a pending call passes.
CallTimesOut ==
    \E id \in rpc_client.pending :
        /\ rpc_client' = call_timeout(rpc_client, id)
        /\ UNCHANGED <<mountVars, registryVars>>

\* The caller of a pending call is cancelled.
CallCancelled ==
    \E id \in rpc_client.pending :
        /\ rpc_client' = call_cancel(rpc_client, id)
        /\ UNCHANGED <<mountVars, registryVars>>

\* The child has closed its stdout and the reader has read all of it.
ReaderSeesEOF ==
    /\ rpc_client.open
    /\ rpc_client.stdout = <<>>
    /\ rpc_client' = [fail_all(rpc_client) EXCEPT !.stdin = {}]
    /\ UNCHANGED <<mountVars, registryVars>>

\* The client is closed.
ClientClosed ==
    /\ rpc_client.open
    /\ rpc_client' = fail_all(rpc_client)
    /\ UNCHANGED <<mountVars, registryVars>>

NextRpc ==
    \/ RpcRequest
    \/ ChildAnswers
    \/ ReaderRoutes
    \/ CallTimesOut
    \/ CallCancelled
    \/ ReaderSeesEOF
    \/ ClientClosed

SpecRpc == Init /\ [][NextRpc]_vars

\* ------------------------------------------------------------- properties

MountedIn(mounts, entry_id) == \E i \in 1..Len(mounts) : mounts[i].entry_id = entry_id

Mounted(entry_id) == MountedIn(active_mounts, entry_id)

\* The last call was an activation that spawned a child and failed.
FailedActivation ==
    /\ ret.op \in {"add", "launch"}
    /\ ret.pid # 0
    /\ ret.result # "activated"

\* C1: an activation that fails after its child was spawned leaves the mount
\* table, the upstream tool set and the dynamic-tool tracking table as they
\* were before the call, and no mount record for its entry.
C1_FailedActivationLeavesNothing ==
    [][FailedActivation' =>
          /\ active_mounts' = active_mounts
          /\ fastmcp_tools' = fastmcp_tools
          /\ dynamic_tools' = dynamic_tools
          /\ ~MountedIn(active_mounts', ret'.id)]_vars

\* C2: when an activation that failed after its child was spawned returns,
\* the child is gone, no supervisor tracks a handle for it and no RPC client
\* is registered for it.
C2_FailedActivationKillsChild ==
    FailedActivation =>
        /\ ~children[ret.pid].alive
        /\ ret.pid \notin Range(running_containers)
        /\ ret.pid \notin Range(processes)
        /\ ret.pid \notin Range(clients)

\* The order of the teardown: tools, then RPC client, then child, then record.
StepRank(step) ==
    CASE step = "tools" -> 1 [] step = "rpc" -> 2 [] step = "child" -> 3 [] OTHER -> 4

InOrder(trace) ==
    \A i, j \in 1..Len(trace) : i < j => StepRank(trace[i]) < StepRank(trace[j])

C5_SecondDeactivationNotActive ==
    [][ret'.op = "remove" =>
          /\ ~MountedIn(active_mounts', ret'.id)
          /\ ~Mounted(ret'.id) =>
                /\ ret'.result = "not_active"
                /\ UNCHANGED <<active_mounts, fastmcp_tools, dynamic_tools, clients,
                               running_containers, processes, children, closed,
                               torn>>]_vars

\* The second of two deactivations of an entry returned 'not active': the
\* client of a child of that entry was closed before.
C5_SecondDeactivationSeen ==
    /\ ret.op = "remove"
    /\ ret.result = "not_active"
    /\ \E p \in closed : children[p].entry = ret.id

\* The last call was a deactivation that succeeded.
Deactivated == ret.op = "remove" /\ ret.result = "deactivated"

\* C6: every name the mount engine remembers for a mount is the name its
\* tool has in the upstream surface, and after a successful deactivation no
\* tool registered for the mount is left in the surface.
C6_ToolsRemovedOnDeactivation ==
    /\ \A h \in DOMAIN dynamic_tools :
          \A i \in 1..Len(dynamic_tools[h]) : dynamic_tools[h][i] \in DOMAIN fastmcp_tools
    /\ Deactivated =>
          \A name \in DOMAIN fastmcp_tools : fastmcp_tools[name].handle # ret.handle

\* C7: when a deactivation returns success, neither supervisor tracks a
\* handle of the mount any more.
C7_DeactivationUntracksChild ==
    Deactivated =>
        /\ ret.handle \notin DOMAIN running_containers
        /\ ret.handle \notin DOMAIN processes
        /\ ret.id \notin DOMAIN processes

\* C8: at most one mount record and at most one live child per entry_id.
C8_OneMountOneChildPerEntry ==
    \A id \in RemoveIds :
        /\ Cardinality(MountIndex(active_mounts, id)) <= 1
        /\ Cardinality({p \in DOMAIN children :
                           children[p].entry = id /\ children[p].alive}) <= 1

\* C9, as stated: every mount record refers to an entry of the store.
C9_EveryMountHasEntry ==
    \A i \in 1..Len(active_mounts) : active_mounts[i].entry_id \in DOMAIN entries

\* C9, as the code has it: a mount record without pid (made by registry_add,
\* in this run or in the one that left the snapshot) refers to an entry of
\* the store; a record with a pid (made by registry_launch_stdio) has the
\* entry_id "stdio-<prefix>", made up by the handler.
C9_ContainerMountsHaveEntries ==
    \A i \in 1..Len(active_mounts) :
        LET m == active_mounts[i]
        IN IF m.pid = 0 THEN m.entry_id \in DOMAIN entries
           ELSE m.entry_id = STDIO_ \o m.prefix

\* An activation has just succeeded, and the table holds a mount of
\* registry_add next to one of registry_launch_stdio that no entry stands for.
C9_BothKindsMounted ==
    /\ ret.result = "activated"
    /\ \E i, j \in 1..Len(active_mounts) :
          /\ active_mounts[i].pid = 0
          /\ active_mounts[i].entry_id \in DOMAIN entries
          /\ active_mounts[j].pid # 0
          /\ active_mounts[j].entry_id \notin DOMAIN entries

\* C10: no two mount records have the same prefix.
C10_PrefixUnique ==
    \A i, j \in 1..Len(active_mounts) :
        i # j => active_mounts[i].prefix # active_mounts[j].prefix

\* The handles of the mounts of the table that this run of the gateway made.
MountHandles ==
    {active_mounts[i].container_id : i \in 1..Len(active_mounts)} \cap DOMAIN dynamic_tools

\* C11: every tool of an active mount is in the upstream surface under its
\* own name mcp_<prefix>_<tool_name>, bound to the client of its own mount:
\* the registration of a tool of another mount has not replaced it.
C11_DistinctNamesPerMount ==
    \A h \in MountHandles :
        \A i \in 1..Len(dynamic_tools[h]) :
            /\ dynamic_tools[h][i] \in DOMAIN fastmcp_tools
            /\ fastmcp_tools[dynamic_tools[h][i]].handle = h

\* C12: a call of registry_exec with the name mcp_<p>_<t> of a tool t of a
\* mount with prefix p is forwarded to the RPC client of that mount, as
\* call_tool(t, args) with the original tool name.
C12_ExecReachesOwnMount ==
    ret.op = "exec" /\ ret.handle \in DOMAIN clients =>
        /\ ret.result = "sent"
        /\ ret.pid = clients[ret.handle]
        /\ ret.name = ret.tool

\* C13: an activation that succeeds and registers tools sends
\* tools/list_changed once, and a deactivation that succeeds, of a mount
\* with tools, sends it once, with no tool of the mount left in the surface.
C13_NotifiedOncePerChange ==
    [][/\ (/\ ret'.op \in {"add", "launch"}
           /\ ret'.result = "activated"
           /\ fastmcp_tools' # fastmcp_tools) => ret'.changed = 1
       /\ (/\ ret'.op = "remove"
           /\ ret'.result = "deactivated"
           /\ ret'.handle \in DOMAIN dynamic_tools
           /\ dynamic_tools[ret'.handle] # <<>>)
          => /\ ret'.changed = 1
             /\ \A name \in DOMAIN fastmcp_tools' :
                    fastmcp_tools'[name].handle # ret'.handle]_vars

\* C14: a deactivation of an entry that is not active, a launch whose
\* command validation fails and an activation that fails after its child was
\* spawned send no tools/list_changed; the first two spawn and stop no child.
C14_NoChangeNoNotification ==
    [][/\ (\/ ret'.op = "remove" /\ ret'.result = "not_active"
           \/ ret'.op = "launch" /\ ret'.result = "validation_failed")
          => /\ ret'.changed = 0
             /\ UNCHANGED <<children, nextpid, closed, torn, running_containers,
                            processes>>
       /\ FailedActivation' => ret'.changed = 0]_vars

\* The coroutines in the refresh body of the source.
InBody(source) ==
    {j \in DOMAIN sched.jobs :
        sched.jobs[j].source = source /\ sched.jobs[j].pos = "scrape"}

\* C15: at most one coroutine is in the refresh body of a source, and it
\* holds the refresh lock of that source; whoever started it.
C15_OneRefreshPerSource ==
    \A source \in Sources :
        /\ Cardinality(InBody(source)) <= 1
        /\ \A j \in InBody(source) : sched.lock[source] = j
        /\ InBody(source) = {} => sched.lock[source] = 0

\* The refreshes of the two sources are in progress at the same time, and
\* for one source a loop, an initial refresh and a force_refresh call are in
\* the body or wait for the lock.
C15_TwoSourcesRefreshing ==
    /\ \A source \in Sources : InBody(source) # {}
    /\ \E source \in Sources :
          {sched.jobs[j].origin :
              j \in {x \in DOMAIN sched.jobs :
                        /\ sched.jobs[x].source = source
                        /\ sched.jobs[x].pos \in {"lock", "scrape"}}}
          = {"loop", "initial", "force"}

\* C16: the status of a source is "refreshing" only while a refresh of the
\* source is in its body: a refresh that has ended has written "ok" or
\* "error".
C16_RefreshingMeansInProgress ==
    \A source \in Sources :
        sched.status[source].status = "refreshing" => InBody(source) # {}

\* The store with every entry of the batch put in.
StoreWith(store, batch) ==
    [id \in (DOMAIN store) \cup {batch[i].id : i \in 1..Len(batch)} |->
        IF \E i \in 1..Len(batch) : batch[i].id = id
        THEN (CHOOSE e \in {batch[i].entry : i \in {k \in 1..Len(batch) : batch[k].id = id}} : TRUE)
        ELSE store[id]]

\* C17: a step that cancels a refresh leaves the store and its index as
\* they are; a step that changes them puts in every entry of one scraped
\* batch, and the index lists the store.
C17_CancelKeepsStoreWhole ==
    [][/\ ret'.result = "cancelled" => UNCHANGED <<entries, search_index>>
       /\ (entries' # entries \/ search_index' # search_index) =>
             \E source \in Sources :
                 \E batch \in ScrapeOutputs(source) :
                     entries' = StoreWith(entries, batch)
       /\ search_index' = DOMAIN entries']_vars

\* A force_refresh was cancelled while its scraper ran: the status of its
\* source is left at "refreshing", and no entry of the batch is in the store.
C17_CancelledWhileScraping ==
    /\ ret.op = "cancel"
    /\ ret.result = "cancelled"
    /\ sched.status["docker"].status = "refreshing"
    /\ InBody("docker") = {}
    /\ IdMyDb \notin DOMAIN entries
    /\ IdMyDb \notin search_index

\* The periodic loops of a running scheduler have not returned.
LoopsAlive(sc) ==
    sc.running =>
        \A source \in Sources :
            /\ LoopJob(source) \in DOMAIN sc.jobs
            /\ sc.jobs[LoopJob(source)].pos # "ended"

\* C18: while the scheduler runs its loops have not returned; a refresh
\* that fails is recorded as status "error" with its message, and the loop
\* that ran it is at its wait.
C18_LoopSurvivesFailure ==
    [][/\ LoopsAlive(sched')
       /\ (ret'.op = "refresh_end" /\ ret'.result = "error") =>
             /\ sched'.status[ret'.id[1]].status = "error"
             /\ sched'.status[ret'.id[1]].error_message # ""
             /\ ret'.origin = "loop" =>
                   sched'.jobs[LoopJob(ret'.id[1])].pos = "sleep"]_vars

\* A loop whose refresh has failed is in the refresh body again, in a later
\* iteration.
C18_LoopRefreshesAfterFailure ==
    /\ sched.running
    /\ \E source \in Sources :
          /\ sched.jobs[LoopJob(source)].failed
          /\ sched.jobs[LoopJob(source)].pos = "scrape"
          /\ sched.status[source].status = "refreshing"

\* C19: when a force_refresh ends with success, last_refresh of its source
\* is later than it was when force_refresh was called, and if the store held
\* the scraped entries already it is as it was: the same ids, each once.
C19_ForceRefreshIdempotent ==
    [][(ret'.op = "refresh_end" /\ ret'.origin = "force" /\ ret'.result = "ok") =>
          /\ sched'.status[ret'.id[1]].last_refresh > ret'.before
          /\ (\A i \in 1..Len(ret'.batch) :
                 /\ ret'.batch[i].id \in DOMAIN entries
                 /\ entries[ret'.batch[i].id] = ret'.batch[i].entry)
             => /\ entries' = entries
                /\ Cardinality(DOMAIN entries') = Cardinality(DOMAIN entries)
                /\ search_index' = search_index]_vars

\* The second of two force_refresh calls of a source has ended with
\* success, after the first had: its scraper returned the entries that the
\* store held.
C19_SecondForceRefresh ==
    /\ ret.op = "refresh_end"
    /\ ret.origin = "force"
    /\ ret.result = "ok"
    /\ sched.forced = 2
    /\ ret.before > 0
    /\ ret.batch # <<>>
    /\ \A i \in 1..Len(ret.batch) : ret.batch[i].id \in DOMAIN entries

\* C20: the ids of the requests of a client are 1, 2, 3, ... in the order
\* of their sending; a waiter receives one thing, and a response it receives
\* is the response to its own request: it has the id of that request and
\* the result of its method, whatever the order of the responses.
C20_ResponsesReachTheirWaiter ==
    /\ \A i \in 1..Len(rpc_client.issued) : rpc_client.issued[i].id = i
    /\ \A i, j \in 1..Len(rpc_client.delivered) :
          rpc_client.delivered[i].waiter = rpc_client.delivered[j].waiter => i = j
    /\ \A i \in 1..Len(rpc_client.delivered) :
          LET d == rpc_client.delivered[i]
          IN d.result \notin Failures =>
                /\ d.id = d.waiter
                /\ d.result = ResultOf(rpc_client.issued[d.waiter].method)

\* list_tools (id 1) and list_resources (id 2) were sent in this order, the
\* child answered id 2 first, and both callers have their result.
C20_AnsweredInReverse ==
    /\ Len(rpc_client.issued) >= 2
    /\ rpc_client.issued[1].method = "tools/list"
    /\ rpc_client.issued[2].method = "resources/list"
    /\ \E i, j \in 1..Len(rpc_client.delivered) :
          /\ i < j
          /\ rpc_client.delivered[i] = [waiter |-> 2, id |-> 2, result |-> "resources"]
          /\ rpc_client.delivered[j] = [waiter |-> 1, id |-> 1, result |-> "tools"]

\* The outcomes a request has had.
OutcomesOf(id) ==
    {i \in 1..Len(rpc_client.delivered) : rpc_client.delivered[i].waiter = id}

\* C21: a request issued through a client is pending and has no outcome, or
\* is not pending and has exactly one outcome: its response, a cancellation
\* or timeout, or "connection closed"; once the client is closed or the
\* child's stdout has ended no request is pending.
C21_ExactlyOneOutcome ==
    /\ \A i \in 1..Len(rpc_client.issued) :
          LET id == rpc_client.issued[i].id
          IN IF id \in rpc_client.pending
                THEN OutcomesOf(id) = {}
                ELSE Cardinality(OutcomesOf(id)) = 1
    /\ ~rpc_client.open => rpc_client.pending = {}

\* Of three requests one got its response, one timed out, and one was
\* pending when the client closed and failed with "connection closed".
C21_ThreeOutcomes ==
    /\ ~rpc_client.open
    /\ Len(rpc_client.issued) = 3
    /\ \E i, j, k \in 1..Len(rpc_client.delivered) :
          /\ rpc_client.delivered[i].result \notin Failures
          /\ rpc_client.delivered[j].result = "timeout"
          /\ rpc_client.delivered[k].result = "connection closed"

\* The calls that ended by their deadline or by a cancellation.
GivenUp ==
    {rpc_client.delivered[i].waiter : i \in
        {j \in 1..Len(rpc_client.delivered) :
            rpc_client.delivered[j].result \in {"timeout", "cancelled"}}}

\* The reader reads a response to a call that was given up.
ReadsLateResponse ==
    /\ rpc_client.open
    /\ rpc_client.stdout # <<>>
    /\ Head(rpc_client.stdout).id \in GivenUp
    /\ rpc_client'.stdout = Tail(rpc_client.stdout)

\* C22: a call whose deadline passed or that was cancelled has no slot in
\* the pending map and its caller has the timeout or the cancellation; when
\* the reader then reads the response with its id, nothing is delivered to
\* any waiter and the pending map is as it was.
C22_LateResponseDropped ==
    [][/\ GivenUp \cap rpc_client.pending = {}
       /\ ReadsLateResponse =>
             /\ rpc_client'.delivered = rpc_client.delivered
             /\ rpc_client'.pending = rpc_client.pending]_vars

\* The call with id 1 timed out, the child answered it all the same and the
\* reader has read that answer; the call with id 2 is still pending.
C22_LateResponseRead ==
    /\ rpc_client.open
    /\ Len(rpc_client.issued) >= 2
    /\ 1 \in GivenUp
    /\ \A r \in rpc_client.stdin : r.id # 1
    /\ \A i \in 1..Len(rpc_client.stdout) : rpc_client.stdout[i].id # 1
    /\ rpc_client.pending = {2}

\* The refresh loops that have not ended.
LoopsRunning ==
    {source \in Sources :
        /\ LoopJob(source) \in DOMAIN sched.jobs
        /\ sched.jobs[LoopJob(source)].pos # "ended"}

\* The children a supervisor tracks.
Tracked ==
    {running_containers[c] : c \in DOMAIN running_containers}
    \cup {processes[x] : x \in DOMAIN processes}

\* shutdown_registry has returned.
ShutdownComplete == ShuttingDown /\ NextStep = ""

\* C23: during the shutdown a client is closed only when no refresh loop
\* runs, a supervisor stops a child only when no client is open, and when the
\* shutdown has returned no refresh loop runs, no client is open and no
\* supervisor tracks a child.
C23_ShutdownOrder ==
    /\ [][ShuttingDown' =>
             /\ closed' # closed => LoopsRunning = {}
             /\ (running_containers' # running_containers \/ processes' # processes)
                   => clients = EmptyFn]_vars
    /\ [](ShutdownComplete =>
             /\ LoopsRunning = {}
             /\ clients = EmptyFn
             /\ Tracked = {})

\* C24: a stop_server of a tracked id sends terminate before anything else,
\* sends kill only when the process had not ended within the timeout, and
\* returns True with the process ended and the id untracked; a stop_server
\* of an id that is not tracked returns False and changes nothing.
C24_TerminateThenKill ==
    [][ret'.op = "stop_server" =>
          IF ret'.id \in DOMAIN processes
          THEN /\ ret'.trace \in {<<>>, <<"terminate">>, <<"terminate", "kill">>}
               /\ ret'.trace = <<"terminate", "kill">> => ret'.waited = "timeout"
               /\ ret'.trace = <<>> => processes[ret'.id] \notin Alive(World)
               /\ ret'.result = "True"
               /\ ret'.pid \notin Alive(World)'
               /\ \A server_id \in ServerIds :
                     server_id = ret'.id =>
                        /\ ~is_running(World, server_id)'
                        /\ get_server_pid(World, server_id)' = 0
               /\ ret'.id \notin DOMAIN processes'
          ELSE /\ ret'.result = "False"
               /\ ret'.trace = <<>>
               /\ World' = World]_vars

\* A process that did not end on terminate was killed, and the stop
\* returned True.
C24_KilledAfterTimeout ==
    /\ ret.op = "stop_server"
    /\ ret.result = "True"
    /\ ret.trace = <<"terminate", "kill">>
    /\ ret.pid # 0 /\ ret.pid \notin Alive(World)

\* C25: when a cleanup_all of a supervisor has returned the supervisor
\* tracks no child, and a cleanup_all that follows a cleanup_all of the same
\* supervisor stops nothing and leaves the state as it was.
C25_CleanupAllIdempotent ==
    [][/\ ret'.op = "stdio_cleanup_all" =>
             /\ list_running(World)' = {}
             /\ processes' = EmptyFn
             /\ ret.op = "stdio_cleanup_all" => World' = World
       /\ ret'.op = "podman_cleanup_all" =>
             /\ running_containers' = EmptyFn
             /\ ret.op = "podman_cleanup_all" => World' = World /\ ret'.changed = 0]_vars

\* C26: a spawn_server with an id the supervisor tracks fails as already
\* running, starts no process and leaves the tracked process as it was.
C26_DuplicateSpawnRefused ==
    [][ret'.op = "spawn_server" /\ ret'.id \in DOMAIN processes =>
          /\ ret'.result = "RuntimeError"
          /\ ret'.pid = 0
          /\ World' = World]_vars

\* C26, for a command that is in PATH: a spawn_server with an id the
\* supervisor tracks fails as already running; with a command that is not in
\* PATH it fails with FileNotFoundError; either way it starts no process and
\* leaves the tracked process as it was.
C26_DuplicateSpawnRefusedInPath ==
    [][ret'.op = "spawn_server" /\ ret'.id \in DOMAIN processes =>
          /\ ret'.result = IF CommandAvailable(ret'.command) THEN "RuntimeError"
                           ELSE "FileNotFoundError"
          /\ ret'.pid = 0
          /\ World' = World]_vars

\* A second spawn with the id of a running server was refused.
C26_SecondSpawnSeen ==
    /\ ret.op = "spawn_server"
    /\ ret.command = "npx"
    /\ ret.result = "RuntimeError"
    /\ ret.pid = 0
    /\ is_running(World, ret.id)

\* The key in upper case, as the allowlist is matched.
UpperKey(key) == [i \in 1..Len(key) |-> Upper(key[i])]

\* The environment of the mount of an entry, empty without a mount.
EnvironmentOf(w, entry_id) ==
    IF get_active_mount(w, entry_id) = None THEN EmptyFn
    ELSE get_active_mount(w, entry_id)[1].environment

\* The entries that have a mount.
ActiveIds == {entry_id \in RemoveIds : get_active_mount(World, entry_id) # None}

\* The environments of the mounts, by entry id.
Environments == [entry_id \in RemoveIds |-> EnvironmentOf(World, entry_id)]

\* C27: a registry_config_set whose keys all start, in upper case, with a
\* prefix of the allowlist sets them on the active mount and leaves its
\* other keys; one with a key that does not is answered with a validation
\* error and changes nothing; one for a mount that is not active changes
\* nothing.
C27_ConfigSetAllOrNothing ==
    [][ret'.op = "config_set" =>
          LET request == ret'.batch
              all_allowed ==
                  \A key \in DOMAIN request :
                      \E prefix \in AllowedPrefixes : StartsWith(UpperKey(key), prefix)
              before == Environments[ret'.id]
              after == Environments'[ret'.id]
          IN /\ ~all_allowed => ret'.result = "invalid" /\ World' = World
             /\ ret'.id \notin ActiveIds => World' = World
             /\ all_allowed /\ ret'.id \in ActiveIds =>
                   /\ ret'.result = "updated"
                   /\ DOMAIN after = DOMAIN before \cup DOMAIN request
                   /\ \A key \in DOMAIN after :
                         after[key] = IF key \in DOMAIN request THEN request[key]
                                      ELSE before[key]]_vars

\* A request with api_key and HOME for a mount that has API_KEY in its
\* environment was refused, and the mount has neither api_key nor HOME.
C27_MixedRequestRefused ==
    /\ ret.op = "config_set"
    /\ ret.result = "invalid"
    /\ DOMAIN ret.batch = {KApiKeyLower, KHome}
    /\ ret.id \in ActiveIds
    /\ DOMAIN EnvironmentOf(World, ret.id) = {KApiKey}

\* The mount records that no client of this run stands behind: those loaded
\* from the snapshot of a previous run.
Loaded ==
    {active_mounts[i].entry_id : i \in
        {j \in 1..Len(active_mounts) : active_mounts[j].container_id \notin DOMAIN clients}}

\* C28: a listing of the active mounts leaves no record loaded from the
\* snapshot in the mount table, and an activation that follows a listing is
\* not answered 'already active' because of such a record.
C28_LoadedMountsPruned ==
    [][/\ ret'.op = "active" => Loaded' = {}
       /\ (ret.op = "active" /\ ret'.op = "add" /\ ret'.id \in Loaded)
             => ret'.result # "already_active"]_vars

\* C29: a Registry made on the cache directory holds the entries and the
\* mount records of the registry that wrote it: the same ids with the same
\* fields, the same mounts in the same order.
C29_SnapshotRoundTrip ==
    /\ load_entries(disk.entries) = entries
    /\ load_mounts(<<>>, disk.mounts) = active_mounts

\* The store holds an entry made with an id in upper case and a scraped
\* one; the mount table holds a container mount and a mount with a pid whose
\* environment was updated after it was added.
C29_StoreWritten ==
    /\ ret.op = "update_mount_environment" /\ ret.result = "mount"
    /\ IdTime \in DOMAIN entries
    /\ IdMyDb \in DOMAIN entries
    /\ Len(active_mounts) >= 2
    /\ \E i \in 1..Len(active_mounts) :
          /\ active_mounts[i].container_id = None
          /\ active_mounts[i].pid # 0
          /\ DOMAIN active_mounts[i].environment = {KApiKey, KHome}

\* The properties of a schema that are not required and have a default.
WithDefault(schema) ==
    {prop \in schema.properties : prop.name \notin schema.required /\ prop.default # <<>>}

\* The payload is the arguments of the caller and, for the properties of
\* the set that the caller left out, their defaults.
PayloadIs(payload, kwargs, defaulted) ==
    /\ DOMAIN payload = DOMAIN kwargs \cup ({prop.name : prop \in defaulted} \ DOMAIN kwargs)
    /\ \A name \in DOMAIN kwargs : payload[name] = kwargs[name]
    /\ \A prop \in defaulted : prop.name \notin DOMAIN kwargs => payload[prop.name] = prop.default[1]

\* C30: the payload of a generated function is the arguments of the caller
\* and the default of each property that is not required, has a default in
\* the schema and was left out by the caller; nothing else is in it.
C30_PayloadIsArgsPlusDefaults ==
    ret.op = "dynamic_tool" =>
        PayloadIs(ret.batch[3], ret.batch[2], WithDefault(ret.batch[1]))

\* C30, for the defaults that are not null: the payload is the arguments of
\* the caller and the default of each property that is not required, has a
\* default other than null in the schema and was left out by the caller; a
\* property whose default is null is treated as one without default.
C30_PayloadIsArgsPlusNonNullDefaults ==
    ret.op = "dynamic_tool" =>
        PayloadIs(ret.batch[3], ret.batch[2],
                  {prop \in WithDefault(ret.batch[1]) : prop.default[1] # Null})

\* A call with text alone of a tool that has count and enabled with
\* defaults, tags without and note with the default null: the payload has
\* text, count 10 and enabled false, and neither tags nor note.
C30_DefaultsApplied ==
    /\ ret.op = "dynamic_tool"
    /\ DOMAIN ret.batch[2] = {"text"}
    /\ ret.batch[1].required = {"text"}
    /\ {PTags, PNote} \subseteq ret.batch[1].properties
    /\ ret.batch[3] = [text |-> JsonStr("hello"), count |-> JsonNum(10),
                       enabled |-> JsonBool(FALSE)]

Popularity(entry) == popularity_sum(entry, "mcp_official")

\* The best fuzzy score of the indexed records of an entry.
BestFuzzy(entry, query) ==
    LET scores == query.fuzzy[entry.id]
        fields == 1..(2 + Len(entry.categories) + Len(entry.tags))
    IN CHOOSE x \in {scores[i] : i \in fields} : \A i \in fields : scores[i] <= x

\* The entries of a store that match a query: they pass the filters and, for
\* a text that is not empty, have an indexed record of a score of 60 or more.
Matching(store, query) ==
    {e \in Range(store) :
        /\ passes_filters(e, query)
        /\ Strip(query.query) # "" => BestFuzzy(e, query) >= FuzzyThreshold}

\* Ten times the combined score of a matching entry.
Combined(entry, query) ==
    IF Strip(query.query) = "" THEN Popularity(entry) * 10
    ELSE BestFuzzy(entry, query) * 6 + Popularity(entry) * 4

\* C32: search returns no more than query.limit entries, and with limit 1
\* it returns exactly one entry whenever an entry matches, an entry of the
\* highest combined score among the matching ones.
C32_LimitRespectedAndBestReturned ==
    ret.op = "search" =>
        LET store == ret.batch[1]
            query == ret.batch[2]
            out == ret.batch[3]
        IN /\ Len(out.results) <= query.limit
           /\ (query.limit = 1 /\ Matching(store, query) # {}) =>
                  /\ ~out.raised
                  /\ Len(out.results) = 1
                  /\ \E e \in Matching(store, query) :
                        /\ e.id = out.results[1]
                        /\ \A o \in Matching(store, query) :
                              Combined(o, query) <= Combined(e, query)

\* The positions of the store whose entries pass the filters, ordered by
\* descending popularity, equal popularity in the order of insertion.
Before(store, i, j) ==
    \/ Popularity(store[i]) > Popularity(store[j])
    \/ Popularity(store[i]) = Popularity(store[j]) /\ i < j

\* C33: with an empty text, search returns the entries that pass the
\* filters in descending order of popularity, entries of equal popularity in
\* their order of insertion, cut at the limit.
C33_EmptyQueryRanksByPopularity ==
    (ret.op = "search" /\ Strip(ret.batch[2].query) = "") =>
        LET store == ret.batch[1]
            query == ret.batch[2]
            out == ret.batch[3]
            passing == {i \in 1..Len(store) : passes_filters(store[i], query)}
            rank(i) == Cardinality({j \in passing : Before(store, j, i)}) + 1
        IN /\ ~out.raised
           /\ Len(out.results) =
                  (IF Cardinality(passing) < query.limit THEN Cardinality(passing)
                   ELSE query.limit)
           /\ \A i \in passing :
                  rank(i) <= query.limit => out.results[rank(i)] = store[i].id

\* Two entries that agree on every field but one.
DifferOnlyIn(a, b, field) ==
    \A f \in DOMAIN a : f # field => a[f] = b[f]

\* C34: the popularity score can be computed for an entry of every source,
\* and of two entries that differ in one signal alone the official one, the
\* featured one, the one with a container image and the one of the source of
\* the higher rank has the strictly higher score.
C34_PopularityMonotone ==
    ret.op = "popularity" =>
        LET a == ret.batch[1]
            b == ret.batch[2]
            sa == ret.batch[3]
            sb == ret.batch[4]
        IN /\ ~sa.raised /\ ~sb.raised
           /\ (DifferOnlyIn(a, b, "official") /\ a.official /\ ~b.official)
                  => sa.score > sb.score
           /\ (DifferOnlyIn(a, b, "featured") /\ a.featured /\ ~b.featured)
                  => sa.score > sb.score
           /\ (DifferOnlyIn(a, b, "container_image") /\ a.container_image
               /\ ~b.container_image) => sa.score > sb.score
           /\ (DifferOnlyIn(a, b, "source") /\ a.source = "docker"
               /\ b.source \notin {"docker", "mcp_official"}) => sa.score > sb.score
           /\ (DifferOnlyIn(a, b, "source") /\ a.source = "mcp_official"
               /\ b.source # "mcp_official") => sa.score > sb.score

\* The children that run and were started for an entry.
ChildrenOf(entry_id) == {p \in Alive(World) : children[p].entry = entry_id}

\* C35: however two activations of one entry interleave, one child at most
\* is spawned and kept for the entry.
C35_OneChildPerEntry ==
    \A entry_id \in {IdSqlite} \cup {STDIO_ \o prefix : prefix \in StdioPrefixes} :
        Cardinality(ChildrenOf(entry_id)) <= 1

\* C36: every record of the mount table stands for a running child: an RPC
\* client is registered under the handle of the mount and a supervisor
\* tracks the child under that handle, for the records loaded at the start
\* as for those added later.
C36_MountsHaveClientAndChild ==
    \A i \in 1..Len(active_mounts) :
        /\ active_mounts[i].container_id \in DOMAIN clients
        /\ active_mounts[i].container_id \in
               DOMAIN running_containers \cup DOMAIN processes

\* RefreshScheduler.stop has returned.
SchedulerStopped == sched.started /\ ~sched.running

\* C37: after stop has returned, no coroutine that the scheduler started,
\* a periodic loop or an initial refresh, is in a refresh body or can
\* still enter one.
C37_NothingRunsAfterStop ==
    SchedulerStopped =>
        \A j \in DOMAIN sched.jobs :
            sched.jobs[j].origin \in {"loop", "initial"} => sched.jobs[j].pos = "ended"

\* C39: the last_refresh of a source is never lost and never decreases:
\* once it is set, every later status of the source has one that is not
\* earlier.
C39_LastRefreshKept ==
    [][\A source \in Sources :
          sched.status[source].last_refresh # 0 =>
              sched'.status[source].last_refresh >= sched.status[source].last_refresh]_vars

\* C40: force_refresh returns True only for a refresh that has succeeded,
\* and False when the scraper has raised or the source has no handler.
C40_ForceRefreshReportsOutcome ==
    (ret.origin = "force" /\ ret.op \in {"refresh_end", "force_end"}) =>
        ret.returned = (IF ret.result = "ok" THEN "True" ELSE "False")

\* C38: however calls of spawn_server interleave, every process spawned that
\* still runs is held by the runner under its server_id, so that stop_server
\* and cleanup_all reach it.
C38_LiveProcessesTracked ==
    \A p \in Alive(World) :
        children[p].kind = "stdio" =>
            /\ children[p].name \in DOMAIN processes
            /\ processes[children[p].name] = p

====
